---- MODULE Spec2Model ----
(***************************************************************************)
(* Model of the F1 qualifying/race reconciliation pipeline:                *)
(*   src/data_collection.py      collect_race_data,                        *)
(*                               create_combined_dataframe,                *)
(*                               analyze_qualifying_performance, __main__  *)
(*   src/day3_advanced_analysis.py  collect_full_season_data, main         *)
(*                                                                         *)
(* A DataFrame is a sequence of rows; a row is a record whose DOMAIN is    *)
(* the set of column names.  A nullable cell (NaN) and a Python None are   *)
(* the empty set; a present value v is the singleton {v}.                  *)
(***************************************************************************)
EXTENDS Integers, Sequences, FiniteSets, TLC

VARIABLES
    script,         \* which program runs: "day2", "day3", "reconcile", "analyze"
    pc,             \* position of the running script
    idx,            \* 1-based position of the for-loop in the request list
    fetched,        \* what the provider answered, one entry per event fetched
    race_data,      \* result of collect_race_data (None or {dict})
    combined_df,    \* result of create_combined_dataframe (None or {DataFrame})
    all_race_data,  \* list of per-event DataFrames
    final_dataset,  \* None before pd.concat, {DataFrame} after
    csv_file,       \* None until to_csv writes it, then {DataFrame}
    log,            \* the messages printed so far
    df,             \* argument of analyze_qualifying_performance
    stats,          \* its result: the pair <<stats, clean_df>>, each None or {value}
    ergast,         \* ergast_api.py: responses received, files written, outcome
    dash,           \* f1_dashboard.py: files, cache, loaded data, view, page
    comparison,     \* fastf1_collector.py: the frame analyze_sample_data builds
    weather_stats,  \* day 3: result of weather_impact_analysis
    viz             \* day4_visualizations.py: data loaded, charts written, messages

vars == <<script, pc, idx, fetched, race_data, combined_df, all_race_data,
          final_dataset, csv_file, log, df, stats,
          ergast, dash, comparison, weather_stats, viz>>

\* the variables of the programs modelled further down
other_programs == <<ergast, dash, comparison, weather_stats, viz>>

----------------------------------------------------------------------------
(* Nullable values *)

None == {}
NaN == {}

OthersIdle ==
    /\ ergast = "off"
    /\ dash = "off"
    /\ comparison = None
    /\ weather_stats = None
    /\ viz = "off"

Some(v) == {v}
Get(o) == CHOOSE v \in o : TRUE
notna(o) == o # NaN

Range(s) == {s[i] : i \in 1..Len(s)}

----------------------------------------------------------------------------
(* Bounds of the enumerated inputs *)

MaxDrivers == 2
MaxPos == 2
MaxRows == 4

Drivers == 1..MaxDrivers          \* driver codes, ordered as their abbreviations
Positions == 1..MaxPos
NullablePos == {NaN} \cup {Some(p) : p \in Positions}
Teams == <<"Ferrari", "McLaren">>
TeamOf(d) == Teams[(d % 2) + 1]
Times == {895, 901}               \* lap times in tenths of a second
NullableTime == {NaN} \cup {Some(t) : t \in Times}
PointsFor(pos) == IF pos = NaN THEN 0 ELSE IF Get(pos) = 1 THEN 25 ELSE 18
StatusFor(pos) == IF pos = NaN THEN "Retired" ELSE "Finished"

----------------------------------------------------------------------------
(* pandas helpers used by create_combined_dataframe *)

\* df[col] : the Series of one column
Column(d, col) == [i \in 1..Len(d) |-> d[i][col]]

\* Series.fillna(other): element-wise, the other Series where this one is NaN
fillna(s, other) == [i \in 1..Len(s) |-> IF s[i] = NaN THEN other[i] ELSE s[i]]

\* NaN-propagating subtraction of two cells
Minus(a, b) == IF a = NaN \/ b = NaN THEN NaN ELSE Some(Get(a) - Get(b))

RECURSIVE SortedSeq(_)
SortedSeq(S) ==
    IF S = {} THEN <<>>
    ELSE LET m == CHOOSE x \in S : \A y \in S : x <= y
         IN <<m>> \o SortedSeq(S \ {m})

RECURSIVE Flatten(_)
Flatten(ss) == IF ss = <<>> THEN <<>> ELSE Head(ss) \o Flatten(Tail(ss))

\* pd.merge(left, right, on='Abbreviation', how='outer').  The keys of both
\* frames are united and sorted; a key on one side only gets NaN for the
\* other side's columns; a key on both sides gets every pairing.  The result
\* row is the tuple of column values in pandas' column order:
\* left columns (with the key in place), then the right columns but the key.
MergeRowsFor(k, left, right) ==
    LET L == SelectSeq(left, LAMBDA r : r.Abbreviation = k)
        R == SelectSeq(right, LAMBDA r : r.Abbreviation = k)
        Pair(l, r) == <<l.Position, k, l.TeamName, l.quali_time,
                        r.Position, r.Points, r.Status>>
        LeftOnly(l) == <<l.Position, k, l.TeamName, l.quali_time, NaN, NaN, NaN>>
        RightOnly(r) == <<NaN, k, NaN, NaN, r.Position, r.Points, r.Status>>
    IN  IF R = <<>> THEN [i \in 1..Len(L) |-> LeftOnly(L[i])]
        ELSE IF L = <<>> THEN [i \in 1..Len(R) |-> RightOnly(R[i])]
        ELSE Flatten([i \in 1..Len(L) |-> [j \in 1..Len(R) |-> Pair(L[i], R[j])]])

merge_inner(left, right) ==
    LET keys == SortedSeq({left[i].Abbreviation : i \in 1..Len(left)}
                          \cap {right[i].Abbreviation : i \in 1..Len(right)})
    IN Flatten([n \in 1..Len(keys) |-> MergeRowsFor(keys[n], left, right)])

merge(left, right) ==
    LET keys == SortedSeq({left[i].Abbreviation : i \in 1..Len(left)}
                          \cup {right[i].Abbreviation : i \in 1..Len(right)})
    IN Flatten([n \in 1..Len(keys) |-> MergeRowsFor(keys[n], left, right)])

\* combined.columns = [...]: the merged columns renamed by position
columns == <<"quali_position", "driver", "team", "quali_time",
             "race_position", "points", "status">>

Rename_Sentinel(t) ==
    [c \in Range(columns) |->
        LET v == t[CHOOSE n \in 1..Len(columns) : columns[n] = c]
        IN IF c \in {"quali_position", "race_position"} /\ v = NaN
           THEN Some(0) ELSE v]

Rename(t) == [c \in Range(columns) |->
                 t[CHOOSE n \in 1..Len(columns) : columns[n] = c]]

\* quali_results['Q3'].fillna(quali_results['Q2'].fillna(quali_results['Q1']))
quali_time_Q1First(quali_results) ==
    fillna(Column(quali_results, "Q1"),
           fillna(Column(quali_results, "Q2"), Column(quali_results, "Q3")))

quali_time(quali_results) ==
    fillna(Column(quali_results, "Q3"),
           fillna(Column(quali_results, "Q2"), Column(quali_results, "Q1")))

\* combined['position_change'] = combined['race_position'] - combined['quali_position']
position_change_Reversed(row) == Minus(row.quali_position, row.race_position)

position_change(row) == Minus(row.race_position, row.quali_position)

\* the columns stamped from race_data['race_info']
race_info_columns(race_info) ==
    [year |-> race_info.year, race |-> race_info.race,
     event_name |-> race_info.event_name]

create_combined_dataframe_NoneWhenEmpty(rd) ==
    IF rd = None THEN None
    ELSE IF Get(rd).quali_results = <<>> /\ Get(rd).race_results = <<>> THEN None
    ELSE
    LET data == Get(rd)
        quali_results == data.quali_results
        qt == quali_time(quali_results)
        quali_df == [i \in 1..Len(quali_results) |->
                        [Position |-> quali_results[i].Position,
                         Abbreviation |-> quali_results[i].Abbreviation,
                         TeamName |-> quali_results[i].TeamName,
                         quali_time |-> qt[i]]]
        race_df == [i \in 1..Len(data.race_results) |->
                        [Position |-> data.race_results[i].Position,
                         Abbreviation |-> data.race_results[i].Abbreviation,
                         Points |-> data.race_results[i].Points,
                         Status |-> data.race_results[i].Status]]
        merged == merge(quali_df, race_df)
        combined == [i \in 1..Len(merged) |-> Rename(merged[i])]
        with_change == [i \in 1..Len(combined) |->
                          [position_change |-> position_change(combined[i])]
                            @@ combined[i]]
    IN Some([i \in 1..Len(with_change) |->
                race_info_columns(data.race_info) @@ with_change[i]])

create_combined_dataframe(rd) ==
    IF rd = None THEN None
    ELSE
    LET data == Get(rd)
        quali_results == data.quali_results
        qt == quali_time(quali_results)
        quali_df == [i \in 1..Len(quali_results) |->
                        [Position |-> quali_results[i].Position,
                         Abbreviation |-> quali_results[i].Abbreviation,
                         TeamName |-> quali_results[i].TeamName,
                         quali_time |-> qt[i]]]
        race_df == [i \in 1..Len(data.race_results) |->
                        [Position |-> data.race_results[i].Position,
                         Abbreviation |-> data.race_results[i].Abbreviation,
                         Points |-> data.race_results[i].Points,
                         Status |-> data.race_results[i].Status]]
        merged == merge(quali_df, race_df)
        combined == [i \in 1..Len(merged) |-> Rename(merged[i])]
        with_change == [i \in 1..Len(combined) |->
                          [position_change |-> position_change(combined[i])]
                            @@ combined[i]]
    IN Some([i \in 1..Len(with_change) |->
                race_info_columns(data.race_info) @@ with_change[i]])

----------------------------------------------------------------------------
(* Session results as the provider returns them (race.results, quali.results) *)

QualiRow(d, pos, q1, q2, q3) ==
    [Position |-> pos, Abbreviation |-> d, TeamName |-> Some(TeamOf(d)),
     Q1 |-> q1, Q2 |-> q2, Q3 |-> q3]

RaceRow(d, pos) ==
    [Position |-> pos, Abbreviation |-> d, TeamName |-> Some(TeamOf(d)),
     Points |-> Some(PointsFor(pos)), Status |-> Some(StatusFor(pos))]

\* the 2024 events both scripts request, with the provider's display name and date
EventName(race_name) ==
    CASE race_name = "Bahrain" -> "Bahrain Grand Prix"
      [] race_name = "Saudi Arabia" -> "Saudi Arabian Grand Prix"
      [] race_name = "Australia" -> "Australian Grand Prix"
      [] race_name = "Japan" -> "Japanese Grand Prix"
      [] race_name = "China" -> "Chinese Grand Prix"
      [] race_name = "Miami" -> "Miami Grand Prix"
      [] race_name = "Imola" -> "Emilia Romagna Grand Prix"
      [] race_name = "Monaco" -> "Monaco Grand Prix"
      [] race_name = "Canada" -> "Canadian Grand Prix"
      [] race_name = "Spain" -> "Spanish Grand Prix"

EventDate(race_name) ==
    CASE race_name = "Bahrain" -> "2024-03-02"
      [] race_name = "Saudi Arabia" -> "2024-03-09"
      [] race_name = "Australia" -> "2024-03-24"
      [] race_name = "Japan" -> "2024-04-07"
      [] race_name = "China" -> "2024-04-21"
      [] race_name = "Miami" -> "2024-05-05"
      [] race_name = "Imola" -> "2024-05-19"
      [] race_name = "Monaco" -> "2024-05-26"
      [] race_name = "Canada" -> "2024-06-09"
      [] race_name = "Spain" -> "2024-06-23"

\* the dictionary collect_race_data returns on success
RaceData(year, race_name, race_results, quali_results) ==
    [race_results |-> race_results,
     quali_results |-> quali_results,
     race_info |-> [year |-> year, race |-> race_name,
                    event_name |-> EventName(race_name),
                    date |-> EventDate(race_name)]]

----------------------------------------------------------------------------
(* Enumerated inputs of create_combined_dataframe *)

\* a driver who set no classified position has no lap time; the pole sitter
\* ran all three rounds; everybody else was eliminated after Q1
JoinQualiRow(d, pos) ==
    IF pos = NaN THEN QualiRow(d, pos, NaN, NaN, NaN)
    ELSE IF Get(pos) = 1 THEN QualiRow(d, pos, Some(901), Some(895), Some(895))
    ELSE QualiRow(d, pos, Some(901), NaN, NaN)

\* every qualifying table over a subset of the drivers, one row per driver
JoinQualiTables ==
    UNION {{[i \in 1..Cardinality(Q) |->
                JoinQualiRow(SortedSeq(Q)[i], qpos[SortedSeq(Q)[i]])]
            : qpos \in [Q -> NullablePos]} : Q \in SUBSET Drivers}

JoinRaceTables ==
    UNION {{[i \in 1..Cardinality(R) |->
                RaceRow(SortedSeq(R)[i], rpos[SortedSeq(R)[i]])]
            : rpos \in [R -> NullablePos]} : R \in SUBSET Drivers}

JoinInputs ==
    {RaceData(2024, "Bahrain", r, q) : r \in JoinRaceTables, q \in JoinQualiTables}

\* one driver, every combination of the three round times
TimeInputs ==
    {RaceData(2024, "Japan", <<RaceRow(1, Some(1))>>,
              <<QualiRow(1, Some(1), q1, q2, q3)>>)
        : q1 \in NullableTime, q2 \in NullableTime, q3 \in NullableTime}

\* a weekend with a driver who lost 4 places (3 -> 7), one who gained 5
\* (7 -> 2), one who only qualified and one who only raced
SampleQuali ==
    <<QualiRow(1, Some(3), Some(901), NaN, NaN),
      QualiRow(2, Some(7), Some(901), Some(895), NaN),
      QualiRow(3, NaN, NaN, NaN, NaN)>>

SampleRace ==
    <<RaceRow(2, Some(2)), RaceRow(1, Some(7)), RaceRow(4, NaN)>>

\* a table that lists the same driver twice
DuplicateInputs ==
    {RaceData(2024, "China", <<RaceRow(1, Some(1))>>,
              <<QualiRow(1, Some(1), Some(901), NaN, NaN),
                QualiRow(1, Some(2), Some(895), NaN, NaN)>>)}

ReconcileInputs ==
    JoinInputs \cup TimeInputs \cup DuplicateInputs
        \cup {RaceData(2024, "Australia", SampleRace, SampleQuali)}

----------------------------------------------------------------------------
(* Specification SpecReconcile: create_combined_dataframe on enumerated inputs *)

Idle ==
    /\ idx = 0
    /\ fetched = <<>>
    /\ all_race_data = <<>>
    /\ final_dataset = None
    /\ csv_file = None
    /\ log = <<>>
    /\ df = <<>>
    /\ stats = <<None, None>>

InitReconcile ==
    /\ OthersIdle
    /\ script = "reconcile"
    /\ pc = "input"
    /\ race_data \in {None} \cup {Some(rd) : rd \in ReconcileInputs}
    /\ combined_df = None
    /\ Idle

Reconcile ==
    /\ UNCHANGED other_programs
    /\ script = "reconcile"
    /\ pc = "input"
    /\ combined_df' = create_combined_dataframe(race_data)
    /\ pc' = "combined"
    /\ UNCHANGED <<script, idx, fetched, race_data, all_race_data,
                   final_dataset, csv_file, log, df, stats>>

NextReconcile == Reconcile

SpecReconcile == InitReconcile /\ [][NextReconcile]_vars

----------------------------------------------------------------------------
(* The multi-event scripts: the __main__ block of data_collection.py ("day2") *)
(* and collect_full_season_data / main of day3_advanced_analysis.py ("day3")  *)

\* data_collection.py: races
races ==
    <<"Bahrain", "Saudi Arabia", "Australia", "Japan", "China">>

\* day3_advanced_analysis.py: races_2024, (race_name, weather) pairs
races_2024 ==
    <<<<"Bahrain", "Dry">>, <<"Saudi Arabia", "Dry">>, <<"Australia", "Dry">>,
      <<"Japan", "Wet">>, <<"China", "Dry">>, <<"Miami", "Dry">>,
      <<"Imola", "Mixed">>, <<"Monaco", "Dry">>, <<"Canada", "Dry">>,
      <<"Spain", "Dry">>>>

\* the request list of a script: race name and the caller's weather label
Requests(s) ==
    IF s = "day3"
    THEN [i \in 1..Len(races_2024) |->
             [race_name |-> races_2024[i][1], weather |-> Some(races_2024[i][2])]]
    ELSE [i \in 1..Len(races) |-> [race_name |-> races[i], weather |-> None]]

\* a printed line: its text, the event it names ("" if none), a count
Msg(text, race_name, n) == [text |-> text, race |-> race_name, n |-> n]

\* what fastf1 answers to get_session/load of the two sessions of an event:
\* an exception while loading the race or the qualifying session, or both
\* result tables
ProviderResponses ==
    {[error |-> "race", race_results |-> <<>>, quali_results |-> <<>>],
     [error |-> "quali", race_results |-> SampleRace, quali_results |-> <<>>],
     [error |-> "", race_results |-> SampleRace, quali_results |-> SampleQuali],
     [error |-> "", race_results |-> <<>>, quali_results |-> <<>>]}

\* collect_race_data: [ret: the value returned, raised: an exception left the
\* function, out: the lines printed]
collect_race_data_Raises(year, race_name, resp) ==
    IF resp.error # ""
    THEN [ret |-> None, raised |-> TRUE, out |-> <<>>]
    ELSE [ret |-> Some(RaceData(year, race_name, resp.race_results,
                                resp.quali_results)),
          raised |-> FALSE,
          out |-> <<Msg("Successfully loaded", race_name, 0)>>]

collect_race_data_Silent(year, race_name, resp) ==
    IF resp.error # ""
    THEN [ret |-> None, raised |-> FALSE, out |-> <<>>]
    ELSE [ret |-> Some(RaceData(year, race_name, resp.race_results,
                                resp.quali_results)),
          raised |-> FALSE,
          out |-> <<Msg("Successfully loaded", race_name, 0)>>]

collect_race_data_Partial(year, race_name, resp) ==
    IF resp.error = "race"
    THEN [ret |-> None, raised |-> FALSE,
          out |-> <<Msg("Error collecting data for", race_name, 0)>>]
    ELSE [ret |-> Some(RaceData(year, race_name, resp.race_results,
                                resp.quali_results)),
          raised |-> FALSE,
          out |-> <<Msg("Successfully loaded", race_name, 0)>>]

collect_race_data(year, race_name, resp) ==
    IF resp.error # ""
    THEN [ret |-> None, raised |-> FALSE,
          out |-> <<Msg("Error collecting data for", race_name, 0)>>]
    ELSE [ret |-> Some(RaceData(year, race_name, resp.race_results,
                                resp.quali_results)),
          raised |-> FALSE,
          out |-> <<Msg("Successfully loaded", race_name, 0)>>]

\* df['weather_condition'] = weather
set_weather_AlwaysDry(frame, weather) ==
    [i \in 1..Len(frame) |-> [weather_condition |-> "Dry"] @@ frame[i]]

set_weather(frame, weather) ==
    [i \in 1..Len(frame) |-> [weather_condition |-> weather] @@ frame[i]]

\* pd.concat(all_race_data, ignore_index=True)
RECURSIVE Reverse(_)
Reverse(ss) == IF ss = <<>> THEN <<>> ELSE Reverse(Tail(ss)) \o <<Head(ss)>>

concat_Reversed(frames) == Flatten(Reverse(frames))

concat(frames) == Flatten(frames)

\* final_dataset['team'].nunique(): distinct non-null values
nunique(frame, col) ==
    Cardinality({frame[i][col] : i \in 1..Len(frame)} \ {NaN})

InitPipeline ==
    /\ OthersIdle
    /\ script \in {"day2", "day3"}
    /\ pc = IF script = "day2" THEN "start" ELSE "loop"
    /\ idx = 1
    /\ fetched = <<>>
    /\ race_data = None
    /\ combined_df = None
    /\ all_race_data = <<>>
    /\ final_dataset = None
    /\ csv_file = None
    /\ log = <<>>
    /\ df = <<>>
    /\ stats = <<None, None>>

\* data_collection.py __main__: if test_fastf1_connection(): ... else: ...
TestConnection ==
    /\ UNCHANGED other_programs
    /\ script = "day2"
    /\ pc = "start"
    /\ \E connected \in BOOLEAN :
         IF connected
         THEN /\ pc' = "loop"
              /\ log' = Append(log, Msg("Successfully connected", "", 0))
         ELSE /\ pc' = "done"
              /\ log' = log \o <<Msg("Connection failed", "", 0),
                                 Msg("FastF1 connection test failed", "", 0)>>
    /\ UNCHANGED <<script, idx, fetched, race_data, combined_df, all_race_data,
                   final_dataset, csv_file, df, stats>>

\* top of the for loop: race_data = collect_race_data(2024, race);
\* a None result skips the event (day3 prints "Failed to collect")
CollectRaceData ==
    /\ UNCHANGED other_programs
    /\ script \in {"day2", "day3"}
    /\ pc = "loop"
    /\ idx <= Len(Requests(script))
    /\ \E resp \in ProviderResponses :
         LET req == Requests(script)[idx]
             r == collect_race_data(2024, req.race_name, resp)
         IN /\ fetched' = Append(fetched, r.ret)
            /\ race_data' = r.ret
            /\ IF r.raised
               THEN /\ pc' = "crashed"
                    /\ idx' = idx
                    /\ log' = log \o r.out
               ELSE IF r.ret = None
               THEN /\ pc' = "loop"
                    /\ idx' = idx + 1
                    /\ log' = log \o r.out \o
                              (IF script = "day3"
                               THEN <<Msg("Failed to collect", req.race_name, 0)>>
                               ELSE <<>>)
               ELSE /\ pc' = "fetched"
                    /\ idx' = idx
                    /\ log' = log \o r.out
    /\ UNCHANGED <<script, combined_df, all_race_data, final_dataset,
                   csv_file, df, stats>>

\* rest of the loop body: create_combined_dataframe, (day3) the weather
\* label, all_race_data.append
CombineAndAppend ==
    /\ UNCHANGED other_programs
    /\ script \in {"day2", "day3"}
    /\ pc = "fetched"
    /\ LET req == Requests(script)[idx]
           c == create_combined_dataframe(race_data)
       IN /\ combined_df' = c
          /\ IF c # None
             THEN LET frame == IF script = "day3"
                               THEN set_weather(Get(c), Get(req.weather))
                               ELSE Get(c)
                  IN /\ all_race_data' = Append(all_race_data, frame)
                     /\ log' = IF script = "day3"
                               THEN Append(log, Msg("Added driver records",
                                                    "", Len(frame)))
                               ELSE log
             ELSE /\ all_race_data' = all_race_data
                  /\ log' = IF script = "day3"
                            THEN Append(log, Msg("Failed to process",
                                                 req.race_name, 0))
                            ELSE log
    /\ idx' = idx + 1
    /\ pc' = "loop"
    /\ UNCHANGED <<script, fetched, race_data, final_dataset, csv_file, df, stats>>

\* the export of data_collection.py once the first event is through
ExportDay2_Early ==
    /\ UNCHANGED other_programs
    /\ script = "day2"
    /\ pc = "loop"
    /\ idx > 1
    /\ IF all_race_data # <<>>
       THEN LET final == concat(all_race_data)
            IN /\ final_dataset' = Some(final)
               /\ csv_file' = Some(final)
               /\ log' = log \o
                    <<Msg("Saved records to day2_analysis_data.csv", "", Len(final)),
                      Msg("Data collection summary", "", 0),
                      Msg("Total races", "", Len(all_race_data)),
                      Msg("Total driver records", "", Len(final)),
                      Msg("Teams found", "", nunique(final, "team"))>>
       ELSE /\ log' = Append(log, Msg("No data was collected - check for errors above",
                                      "", 0))
            /\ UNCHANGED <<final_dataset, csv_file>>
    /\ pc' = "done"
    /\ UNCHANGED <<script, idx, fetched, race_data, combined_df, all_race_data,
                   df, stats>>

\* data_collection.py after the loop: concat, to_csv and the summary, or the
\* "no data" line
ExportDay2 ==
    /\ UNCHANGED other_programs
    /\ script = "day2"
    /\ pc = "loop"
    /\ idx > Len(Requests(script))
    /\ IF all_race_data # <<>>
       THEN LET final == concat(all_race_data)
            IN /\ final_dataset' = Some(final)
               /\ csv_file' = Some(final)
               /\ log' = log \o
                    <<Msg("Saved records to day2_analysis_data.csv", "", Len(final)),
                      Msg("Data collection summary", "", 0),
                      Msg("Total races", "", Len(all_race_data)),
                      Msg("Total driver records", "", Len(final)),
                      Msg("Teams found", "", nunique(final, "team"))>>
       ELSE /\ log' = Append(log, Msg("No data was collected - check for errors above",
                                      "", 0))
            /\ UNCHANGED <<final_dataset, csv_file>>
    /\ pc' = "done"
    /\ UNCHANGED <<script, idx, fetched, race_data, combined_df, all_race_data,
                   df, stats>>

\* end of collect_full_season_data and the test in main: the concatenated
\* frame, or None and "No data to analyze"
ConcatFullSeason ==
    /\ UNCHANGED other_programs
    /\ script = "day3"
    /\ pc = "loop"
    /\ idx > Len(Requests(script))
    /\ IF all_race_data # <<>>
       THEN LET final == concat(all_race_data)
            IN /\ final_dataset' = Some(final)
               /\ log' = Append(log, Msg("TOTAL DATASET records from races", "",
                                         Len(final)))
               /\ pc' = "analysis"
       ELSE /\ final_dataset' = None
            /\ log' = log \o <<Msg("No data collected", "", 0),
                               Msg("No data to analyze", "", 0)>>
            /\ pc' = "done"
    /\ UNCHANGED <<script, idx, fetched, race_data, combined_df, all_race_data,
                   csv_file, df, stats>>

\* day3 main after the collection: the analyses print, save_day3_results
\* writes the frame to day3_full_analysis.csv
AnalyzeAndSaveDay3 ==
    /\ UNCHANGED other_programs
    /\ script = "day3"
    /\ pc = "analysis"
    /\ csv_file' = final_dataset
    /\ log' = log \o
         <<Msg("Saved full dataset to day3_full_analysis.csv", "", 0),
           Msg("DAY 3 ANALYSIS COMPLETE", "", Len(Get(final_dataset)))>>
    /\ pc' = "done"
    /\ UNCHANGED <<script, idx, fetched, race_data, combined_df, all_race_data,
                   final_dataset, df, stats>>

Next ==
    \/ TestConnection
    \/ CollectRaceData
    \/ CombineAndAppend
    \/ ExportDay2
    \/ ConcatFullSeason
    \/ AnalyzeAndSaveDay3

Spec == InitPipeline /\ [][Next]_vars

----------------------------------------------------------------------------
(* analyze_qualifying_performance (data_collection.py).  Statistics are      *)
(* exact: a mean is a reduced fraction, a correlation is its sign and its    *)
(* square as a reduced fraction, a standard deviation is its square.         *)

RECURSIVE GCD(_, _)
GCD(a, b) == IF b = 0 THEN a ELSE GCD(b, a % b)

Abs(x) == IF x < 0 THEN -x ELSE x

\* the fraction a / b, b > 0, in lowest terms
Frac(a, b) ==
    LET g == GCD(Abs(a), b)
    IN [num |-> a \div g, den |-> b \div g]

RECURSIVE SumSeq(_)
SumSeq(xs) == IF xs = <<>> THEN 0 ELSE Head(xs) + SumSeq(Tail(xs))

Sign(x) == IF x > 0 THEN 1 ELSE IF x < 0 THEN -1 ELSE 0

\* df.dropna(subset=[...]): the rows with no NaN in the subset's columns
dropna_HowAll(frame, subset) ==
    SelectSeq(frame, LAMBDA row : \E c \in subset : row[c] # NaN)

dropna(frame, subset) ==
    SelectSeq(frame, LAMBDA row : \A c \in subset : row[c] # NaN)

\* Series.corr(other): Pearson correlation over the pairs with both values
\* present; NaN with fewer than two pairs or a constant series
corr(xs, ys) ==
    LET both == SelectSeq([i \in 1..Len(xs) |-> i],
                          LAMBDA i : xs[i] # NaN /\ ys[i] # NaN)
        n == Len(both)
        x == [k \in 1..n |-> Get(xs[both[k]])]
        y == [k \in 1..n |-> Get(ys[both[k]])]
        sx == SumSeq(x)
        sy == SumSeq(y)
        cov == n * SumSeq([k \in 1..n |-> x[k] * y[k]]) - sx * sy
        vx == n * SumSeq([k \in 1..n |-> x[k] * x[k]]) - sx * sx
        vy == n * SumSeq([k \in 1..n |-> y[k] * y[k]]) - sy * sy
    IN  IF n < 2 \/ vx = 0 \/ vy = 0 THEN NaN
        ELSE Some([sign |-> Sign(cov), square |-> Frac(cov * cov, vx * vy)])

\* correlation**2
Squared(c) == IF c = NaN THEN NaN ELSE Some(Get(c).square)

\* Series.mean(): over the values present; NaN when there is none
mean(xs) ==
    LET v == SelectSeq(xs, LAMBDA c : c # NaN)
    IN  IF v = <<>> THEN NaN
        ELSE Some(Frac(SumSeq([k \in 1..Len(v) |-> Get(v[k])]), Len(v)))

\* Series.std(): sample standard deviation (ddof = 1), given by its square
std(xs) ==
    LET v == SelectSeq(xs, LAMBDA c : c # NaN)
        n == Len(v)
        s == SumSeq([k \in 1..n |-> Get(v[k])])
        ss == SumSeq([k \in 1..n |-> Get(v[k]) * Get(v[k])])
    IN  IF n < 2 THEN NaN ELSE Some(Frac(n * ss - s * s, n * (n - 1)))

\* returns the pair (stats, clean_df), or (None, None)
analyze_qualifying_performance_NoGuard(frame) ==
    LET clean_df == dropna(frame, {"quali_position", "race_position"})
        correlation == corr(Column(clean_df, "quali_position"),
                            Column(clean_df, "race_position"))
    IN  <<Some([correlation |-> correlation,
                r_squared |-> Squared(correlation),
                sample_size |-> Len(clean_df),
                mean_position_change |->
                    mean(Column(clean_df, "position_change")),
                std_position_change |->
                    std(Column(clean_df, "position_change"))]),
          Some(clean_df)>>

analyze_qualifying_performance(frame) ==
    LET clean_df == dropna(frame, {"quali_position", "race_position"})
        correlation == corr(Column(clean_df, "quali_position"),
                            Column(clean_df, "race_position"))
    IN  IF Len(clean_df) = 0 THEN <<None, None>>
        ELSE <<Some([correlation |-> correlation,
                     r_squared |-> Squared(correlation),
                     sample_size |-> Len(clean_df),
                     mean_position_change |->
                         mean(Column(clean_df, "position_change")),
                     std_position_change |->
                         std(Column(clean_df, "position_change"))]),
               Some(clean_df)>>

----------------------------------------------------------------------------
(* Specification SpecAnalyze: analyze_qualifying_performance on a dataset    *)
(* that grows row by row                                                     *)

\* a row in the exported column layout with the given positions
DatasetRow(qpos, rpos) ==
    LET base == [quali_position |-> qpos, driver |-> 1,
                 team |-> Some(TeamOf(1)),
                 quali_time |-> IF qpos = NaN THEN NaN ELSE Some(901),
                 race_position |-> rpos,
                 points |-> Some(PointsFor(rpos)),
                 status |-> Some(StatusFor(rpos)),
                 year |-> 2024, race |-> "Bahrain",
                 event_name |-> EventName("Bahrain")]
    IN [position_change |-> position_change(base)] @@ base

DatasetRows == {DatasetRow(q, r) : q \in NullablePos, r \in NullablePos}

InsertAt(frame, k, row) ==
    SubSeq(frame, 1, k - 1) \o <<row>> \o SubSeq(frame, k, Len(frame))

InitAnalyze ==
    /\ OthersIdle
    /\ script = "analyze"
    /\ pc = "analyzed"
    /\ df = <<>>
    /\ stats = analyze_qualifying_performance(df)
    /\ idx = 0
    /\ fetched = <<>>
    /\ race_data = None
    /\ combined_df = None
    /\ all_race_data = <<>>
    /\ final_dataset = None
    /\ csv_file = None
    /\ log = <<>>

\* one more row before or after the rows of the dataset (pd.concat on either
\* side), and the analysis of the larger dataset
AddRowAndAnalyze ==
    /\ UNCHANGED other_programs
    /\ script = "analyze"
    /\ Len(df) < MaxRows
    /\ \E row \in DatasetRows, k \in {1, Len(df) + 1} :
         /\ df' = InsertAt(df, k, row)
         /\ stats' = analyze_qualifying_performance(df')
    /\ UNCHANGED <<script, pc, idx, fetched, race_data, combined_df,
                   all_race_data, final_dataset, csv_file, log>>

NextAnalyze == AddRowAndAnalyze

SpecAnalyze == InitAnalyze /\ [][NextAnalyze]_vars

----------------------------------------------------------------------------
(* Properties of create_combined_dataframe, checked under SpecReconcile *)

Reconciled == script = "reconcile" /\ pc = "combined" /\ race_data # None

DriversOf(table) == {table[i].Abbreviation : i \in 1..Len(table)}

UniqueKeys(table) ==
    \A i, j \in 1..Len(table) :
        table[i].Abbreviation = table[j].Abbreviation => i = j

Max(a, b) == IF a >= b THEN a ELSE b

\* C1: when each driver code occurs at most once per table, the reconciled
\* frame has exactly one row for every driver code of either table and no
\* other row, so max(|quali|, |race|) <= rows <= |quali| + |race|; a driver of
\* only one table keeps that table's position and has the other session's
\* fields null.
C1_OuterJoin ==
    Reconciled =>
        LET q == Get(race_data).quali_results
            r == Get(race_data).race_results
            out == Get(combined_df)
        IN (UniqueKeys(q) /\ UniqueKeys(r)) =>
            /\ combined_df # None
            /\ \A k \in DriversOf(q) \cup DriversOf(r) :
                   Cardinality({i \in 1..Len(out) : out[i].driver = k}) = 1
            /\ \A i \in 1..Len(out) : out[i].driver \in DriversOf(q) \cup DriversOf(r)
            /\ Len(out) >= Max(Len(q), Len(r))
            /\ Len(out) <= Len(q) + Len(r)
            /\ \A i \in 1..Len(out) :
                /\ out[i].driver \notin DriversOf(r) =>
                       /\ out[i].race_position = NaN
                       /\ out[i].points = NaN
                       /\ out[i].status = NaN
                       /\ \E n \in 1..Len(q) :
                            /\ q[n].Abbreviation = out[i].driver
                            /\ q[n].Position = out[i].quali_position
                /\ out[i].driver \notin DriversOf(q) =>
                       /\ out[i].quali_position = NaN
                       /\ out[i].quali_time = NaN
                       /\ \E n \in 1..Len(r) :
                            /\ r[n].Abbreviation = out[i].driver
                            /\ r[n].Position = out[i].race_position
                            /\ r[n].Points = out[i].points
                            /\ r[n].Status = out[i].status

\* a reconciled weekend with a quali-only driver, a race-only driver and a
\* driver of both sessions
C1_Witness ==
    /\ Reconciled
    /\ LET q == Get(race_data).quali_results
           r == Get(race_data).race_results
           out == Get(combined_df)
       IN /\ UniqueKeys(q) /\ UniqueKeys(r)
          /\ DriversOf(q) \ DriversOf(r) # {}
          /\ DriversOf(r) \ DriversOf(q) # {}
          /\ DriversOf(q) \cap DriversOf(r) # {}
          /\ Len(out) > Max(Len(q), Len(r))
          /\ Len(out) < Len(q) + Len(r)

\* C2: in every reconciled row position_change is race_position minus
\* quali_position when both are present (3 -> 7 gives 4, 7 -> 2 gives -5)
\* and is null when either position is null.
C2_PositionChange ==
    Reconciled =>
        \A i \in 1..Len(Get(combined_df)) :
            LET row == Get(combined_df)[i]
            IN  /\ (row.quali_position = NaN \/ row.race_position = NaN)
                       => row.position_change = NaN
                /\ (row.quali_position # NaN /\ row.race_position # NaN)
                       => /\ row.position_change # NaN
                          /\ Get(row.position_change)
                               = Get(row.race_position) - Get(row.quali_position)
                /\ (row.quali_position = {3} /\ row.race_position = {7})
                       => row.position_change = {4}
                /\ (row.quali_position = {7} /\ row.race_position = {2})
                       => row.position_change = {-5}

\* the frame holding the 3 -> 7 row, the 7 -> 2 row and a row with a null position
C2_Witness ==
    /\ Reconciled
    /\ \E i, j, k \in 1..Len(Get(combined_df)) :
         LET out == Get(combined_df)
         IN /\ out[i].quali_position = {3} /\ out[i].race_position = {7}
            /\ out[i].position_change = {4}
            /\ out[j].quali_position = {7} /\ out[j].race_position = {2}
            /\ out[j].position_change = {-5}
            /\ out[k].race_position = NaN /\ out[k].position_change = NaN

\* first non-null of (Q3, Q2, Q1), written out case by case
BestOf(qrow) ==
    IF qrow.Q3 # NaN THEN qrow.Q3
    ELSE IF qrow.Q2 # NaN THEN qrow.Q2
    ELSE qrow.Q1

\* C3: for every qualifying row, the reconciled row of that driver has as
\* quali_time the first non-null of (Q3, Q2, Q1), and it is null exactly
\* when all three round times are null.
C3_BestQualifyingTime ==
    Reconciled =>
        LET q == Get(race_data).quali_results
            out == Get(combined_df)
        IN UniqueKeys(q) /\ UniqueKeys(Get(race_data).race_results) =>
            \A n \in 1..Len(q) :
                \E i \in 1..Len(out) :
                    /\ out[i].driver = q[n].Abbreviation
                    /\ out[i].quali_time = BestOf(q[n])
                    /\ (out[i].quali_time = NaN) <=>
                         (q[n].Q1 = NaN /\ q[n].Q2 = NaN /\ q[n].Q3 = NaN)

\* the frame with (Q1=90.1, Q2=null, Q3=null) -> 90.1,
\* (Q1=90.1, Q2=89.5, Q3=null) -> 89.5 and all null -> null
C3_Witness ==
    /\ Reconciled
    /\ LET q == Get(race_data).quali_results
           out == Get(combined_df)
       IN /\ Len(q) = 3 /\ Len(out) = 4
          /\ q[1].Q1 = {901} /\ q[1].Q2 = NaN /\ q[1].Q3 = NaN
          /\ out[1].driver = q[1].Abbreviation /\ out[1].quali_time = {901}
          /\ q[2].Q1 = {901} /\ q[2].Q2 = {895} /\ q[2].Q3 = NaN
          /\ out[2].driver = q[2].Abbreviation /\ out[2].quali_time = {895}
          /\ q[3].Q1 = NaN /\ q[3].Q2 = NaN /\ q[3].Q3 = NaN
          /\ out[3].driver = q[3].Abbreviation /\ out[3].quali_time = NaN

\* C10: every row returned by create_combined_dataframe carries the season
\* year, the race name, the event display name and the event date of its
\* event.
C10_AllFourMetadata ==
    (script = "reconcile" /\ pc = "combined" /\ combined_df # None) =>
        \A i \in 1..Len(Get(combined_df)) :
            LET row == Get(combined_df)[i]
                info == Get(race_data).race_info
            IN  /\ {"year", "race", "event_name", "date"} \subseteq DOMAIN row
                /\ row.year = info.year
                /\ row.race = info.race
                /\ row.event_name = info.event_name
                /\ row.date = info.date

----------------------------------------------------------------------------
(* Properties of the multi-event scripts, checked under Spec *)

Pipeline == script \in {"day2", "day3"}

ConnectionFailed ==
    \E n \in 1..Len(log) : log[n].text = "FastF1 connection test failed"

\* the for loop has run over the whole request list
LoopFinished == Pipeline /\ pc \in {"analysis", "done"} /\ ~ConnectionFailed

RaceName(i) == Requests(script)[i].race_name

EventIndex(race_name) ==
    CHOOSE i \in 1..Len(Requests(script)) : RaceName(i) = race_name

RowsOf(frame, race_name) == SelectSeq(frame, LAMBDA row : row.race = race_name)

\* the events whose iteration of the loop is over
Processed == {i \in 1..Len(fetched) : i < idx}

FailedEvents == {i \in 1..Len(fetched) : fetched[i] = None}

\* the rows a frame must hold for the events in E: for a failed event none,
\* for a fetched one a row per distinct driver of its two session tables
ExactlyTheFetched(frame, E) ==
    /\ \A n \in 1..Len(frame) :
          \E i \in E : fetched[i] # None /\ frame[n].race = RaceName(i)
    /\ \A i \in E :
          IF fetched[i] = None
          THEN RowsOf(frame, RaceName(i)) = <<>>
          ELSE LET data == Get(fetched[i])
                   ds == DriversOf(data.quali_results)
                            \cup DriversOf(data.race_results)
                   rows == RowsOf(frame, RaceName(i))
               IN /\ Len(rows) = Cardinality(ds)
                  /\ {rows[n].driver : n \in 1..Len(rows)} = ds

\* C4: a failed fetch raises nothing, contributes no rows and does not stop
\* the loop: the next event is fetched, every requested event has been
\* fetched when the loop ends, and the dataset holds exactly the rows of the
\* events whose fetch succeeded.
C4_PartialFailure ==
    Pipeline =>
        /\ pc # "crashed"
        /\ pc = "loop" => Len(fetched) = idx - 1
        /\ pc = "fetched" => Len(fetched) = idx /\ fetched[idx] # None
        /\ LoopFinished => Len(fetched) = Len(Requests(script))
        /\ ExactlyTheFetched(concat(all_race_data), Processed)
        /\ final_dataset # None =>
              ExactlyTheFetched(Get(final_dataset), 1..Len(Requests(script)))

\* the five-event run whose third fetch failed and whose other four events
\* are in the exported dataset
C4_Witness ==
    /\ script = "day2" /\ pc = "done"
    /\ Len(fetched) = 5
    /\ FailedEvents = {3}
    /\ csv_file # None
    /\ \A i \in {1, 2, 4, 5} : RowsOf(Get(csv_file), RaceName(i)) # <<>>

SummaryTexts ==
    {"Saved records to day2_analysis_data.csv", "Data collection summary",
     "Total races", "Total driver records", "Teams found",
     "No data was collected - check for errors above",
     "TOTAL DATASET records from races", "No data collected",
     "No data to analyze", "Saved full dataset to day3_full_analysis.csv",
     "DAY 3 ANALYSIS COMPLETE"}

\* the events the final summary names
NamedInSummary ==
    {log[n].race : n \in {m \in 1..Len(log) : log[m].text \in SummaryTexts}} \ {""}

\* the events named, in order, by the error lines of collect_race_data
ErrorLines == SelectSeq(log, LAMBDA m : m.text = "Error collecting data for")

FailedInOrder ==
    SelectSeq([i \in 1..Len(fetched) |-> i], LAMBDA i : fetched[i] = None)

\* C5 as claimed: at the end of the run the final summary names exactly the
\* events that failed to fetch.
C5_SummaryNamesFailedEvents ==
    (LoopFinished /\ pc = "done") =>
        NamedInSummary = {RaceName(i) : i \in FailedEvents}

\* C5 as amended: every failed event is named, once and in request order, by
\* the error line printed when its fetch fails; the final summary names no
\* event.
C5_FailedEventsNamedWhenTheyFail ==
    Pipeline =>
        /\ Len(ErrorLines) = Len(FailedInOrder)
        /\ \A n \in 1..Len(ErrorLines) :
              ErrorLines[n].race = RaceName(FailedInOrder[n])
        /\ NamedInSummary = {}

\* a finished run with failed events, successful events and a summary
C5_Witness ==
    /\ LoopFinished /\ pc = "done"
    /\ Cardinality(FailedEvents) = 2
    /\ csv_file # None
    /\ \E n \in 1..Len(log) : log[n].text \in SummaryTexts
    /\ Len(ErrorLines) = 2

NoDataTexts ==
    {"No data was collected - check for errors above", "No data collected",
     "No data to analyze"}

\* C7: when no requested event yielded any reconciled row, the run writes no
\* dataset file, prints a "no data" line and ends without an error.
C7_EmptyDatasetNotExported ==
    (LoopFinished /\ pc = "done" /\ concat(all_race_data) = <<>>) =>
        /\ csv_file = None
        /\ \E n \in 1..Len(log) : log[n].text \in NoDataTexts

\* the successful events, in request order
SucceededInOrder ==
    SelectSeq([i \in 1..Len(fetched) |-> i], LAMBDA i : fetched[i] # None)

RECURSIVE TotalLen(_)
TotalLen(frames) ==
    IF frames = <<>> THEN 0 ELSE Len(Head(frames)) + TotalLen(Tail(frames))

\* C8: the dataset is the per-event frames concatenated in request order: the
\* rows of an earlier event precede those of a later one (no row is followed
\* by a row of an earlier event), the rows of one event are that event's
\* frame in its own order, and the row count is the sum of the frames' row
\* counts.
C8_ConcatenationInRequestOrder ==
    (Pipeline /\ final_dataset # None) =>
        LET D == Get(final_dataset)
        IN  /\ \A a \in 1..(Len(D) - 1) :
                  EventIndex(D[a].race) <= EventIndex(D[a + 1].race)
            /\ Len(all_race_data) = Len(SucceededInOrder)
            /\ \A j \in 1..Len(all_race_data) :
                  /\ \A n \in 1..Len(all_race_data[j]) :
                        all_race_data[j][n].race = RaceName(SucceededInOrder[j])
                  /\ RowsOf(D, RaceName(SucceededInOrder[j])) = all_race_data[j]
            /\ Len(D) = TotalLen(all_race_data)

\* a dataset with the rows of at least three events, one event skipped between
C8_Witness ==
    /\ Pipeline /\ final_dataset # None
    /\ LET D == Get(final_dataset)
       IN /\ RowsOf(D, RaceName(1)) # <<>>
          /\ fetched[2] = None
          /\ RowsOf(D, RaceName(3)) # <<>>
          /\ RowsOf(D, RaceName(4)) # <<>>
          /\ Len(RowsOf(D, RaceName(1))) > 1

WeatherOf(race_name) == Get(Requests("day3")[EventIndex(race_name)].weather)

Labelled(frame) ==
    \A n \in 1..Len(frame) :
        /\ "weather_condition" \in DOMAIN frame[n]
        /\ frame[n].weather_condition = WeatherOf(frame[n].race)

\* C9: in the day-3 run every row of an event carries the weather label the
\* caller's list gives for that event, at every moment of the run, in the
\* per-event frames, the concatenated dataset and the exported file.
C9_WeatherLabel ==
    script = "day3" =>
        /\ \A j \in 1..Len(all_race_data) : Labelled(all_race_data[j])
        /\ final_dataset # None => Labelled(Get(final_dataset))
        /\ csv_file # None => Labelled(Get(csv_file))

\* an exported day-3 dataset with rows labelled Dry, Wet and Mixed
C9_Witness ==
    /\ script = "day3" /\ csv_file # None
    /\ LET D == Get(csv_file)
       IN \E a, b, c \in 1..Len(D) :
            /\ D[a].race = "Bahrain" /\ D[a].weather_condition = "Dry"
            /\ D[b].race = "Japan" /\ D[b].weather_condition = "Wet"
            /\ D[c].race = "Imola" /\ D[c].weather_condition = "Mixed"

----------------------------------------------------------------------------
(* Properties of analyze_qualifying_performance, checked under SpecAnalyze *)

Comparable(row) == row.quali_position # NaN /\ row.race_position # NaN

NumComparable(frame) == Cardinality({i \in 1..Len(frame) : Comparable(frame[i])})

\* the step added a row with a null position on either side
AddedNullRow ==
    /\ Len(df') = Len(df) + 1
    /\ NumComparable(df') = NumComparable(df)

SameStatistics(a, b) ==
    IF a[1] = None \/ b[1] = None THEN a[1] = b[1]
    ELSE /\ Get(a[1]).sample_size = Get(b[1]).sample_size
         /\ Get(a[1]).correlation = Get(b[1]).correlation
         /\ Get(a[1]).r_squared = Get(b[1]).r_squared
         /\ Get(a[1]).mean_position_change = Get(b[1]).mean_position_change

\* C6: sample_size is the number of rows with both positions non-null, and a
\* row with a null position added to the dataset leaves sample_size,
\* correlation, r_squared and mean_position_change unchanged.
C6_NullRowsIgnored ==
    /\ [](script = "analyze" =>
            /\ stats[1] # None <=> NumComparable(df) > 0
            /\ stats[1] # None => Get(stats[1]).sample_size = NumComparable(df))
    /\ [][(script = "analyze" /\ AddedNullRow) => SameStatistics(stats, stats')]_vars

\* three comparable rows with correlation 1/2 and mean change 1/3, and a
\* fourth row with a null race position
C6_Witness ==
    /\ script = "analyze"
    /\ Len(df) = 4
    /\ NumComparable(df) = 3
    /\ df[2].race_position = NaN /\ df[2].quali_position # NaN
    /\ stats[1] # None
    /\ Get(stats[1]).sample_size = 3
    /\ Get(stats[1]).correlation = Some([sign |-> 1, square |-> Frac(1, 4)])
    /\ Get(stats[1]).mean_position_change = Some(Frac(1, 3))

----------------------------------------------------------------------------
(* ergast_api.py: the REST provider.  A JSON object is a function from its   *)
(* keys, a JSON list a sequence.  A response is a network error or an HTTP   *)
(* answer with a status and a body that is JSON ({document}) or not (None).  *)

DriverEntry ==
    ("Driver" :> ("familyName" :> "Verstappen")) @@ ("Q3" :> "1:29.179")
        @@ ("Time" :> ("time" :> "1:31:44.742"))

RaceEntry(list_key, entries) ==
    ("raceName" :> "Bahrain Grand Prix") @@ ("date" :> "2024-03-02")
        @@ ("Circuit" :> ("circuitName" :> "Bahrain International Circuit"))
        @@ (list_key :> entries)

MRData(table_key, table) ==
    "MRData" :> (("series" :> "f1") @@ (table_key :> table))

NoMRDataDoc == "error" :> "bad request"
NoTableDoc == "MRData" :> ("series" :> "f1")

\* documents a /{season}/{round}/results.json or qualifying.json request can
\* get: well formed with three entries, with one entry, without the result
\* list, with no race, without the race table, without MRData
RaceDocs(list_key) ==
    {MRData("RaceTable", ("season" :> "2024") @@
            ("Races" :> <<RaceEntry(list_key, <<DriverEntry, DriverEntry, DriverEntry>>)>>)),
     MRData("RaceTable", ("season" :> "2024") @@
            ("Races" :> <<RaceEntry(list_key, <<DriverEntry>>)>>)),
     MRData("RaceTable", ("season" :> "2024") @@
            ("Races" :> <<RaceEntry("Laps", <<DriverEntry>>)>>)),
     MRData("RaceTable", ("season" :> "2024") @@ ("Races" :> <<>>)),
     NoTableDoc,
     NoMRDataDoc}

\* documents for /current.json: a race table with season and total, one
\* without total, one without season, no race table, no MRData
CurrentDocs ==
    {MRData("RaceTable", ("season" :> "2024") @@ ("total" :> "24")),
     MRData("RaceTable", "season" :> "2024"),
     MRData("RaceTable", "total" :> "24"),
     NoTableDoc,
     NoMRDataDoc}

\* documents for /2024/drivers.json and /2024/constructors.json
TableDocs(table_key, list_key) ==
    {MRData(table_key, list_key :> <<DriverEntry>>),
     MRData(table_key, "season" :> "2024"),
     NoTableDoc,
     NoMRDataDoc}

NetworkError == [kind |-> "network_error", status |-> 0, json |-> None]

Responses(docs) ==
    {NetworkError} \cup
    {[kind |-> "http", status |-> st, json |-> j]
        : st \in {200, 503}, j \in {None} \cup {Some(d) : d \in docs}}

\* explore_available_data: endpoints
endpoints ==
    <<[name |-> "Races", path |-> "/2024.json"],
      [name |-> "Results", path |-> "/2024/1/results.json"],
      [name |-> "Qualifying", path |-> "/2024/1/qualifying.json"],
      [name |-> "Drivers", path |-> "/2024/drivers.json"],
      [name |-> "Constructors", path |-> "/2024/constructors.json"]>>

EndpointDocs(name) ==
    CASE name = "Races" -> RaceDocs("Results")
      [] name = "Results" -> RaceDocs("Results")
      [] name = "Qualifying" -> RaceDocs("QualifyingResults")
      [] name = "Drivers" -> TableDocs("DriverTable", "Drivers")
      [] name = "Constructors" -> TableDocs("ConstructorTable", "Constructors")

\* d[k1][k2]...: the value, or None where a key is missing (KeyError)
RECURSIVE Lookup(_, _)
Lookup(d, keys) ==
    IF keys = <<>> THEN Some(d)
    ELSE IF Head(keys) \in DOMAIN d THEN Lookup(d[Head(keys)], Tail(keys))
    ELSE None

\* the exception of data['MRData'][table_key][list_key][0][k1][k2]...,
\* "" if there is none
EntryExc(doc, table_key, list_key, keys) ==
    LET list == Lookup(doc, <<"MRData", table_key, list_key>>)
    IN  IF list = None THEN "KeyError"
        ELSE IF Len(Get(list)) = 0 THEN "IndexError"
        ELSE IF Lookup(Get(list)[1], keys) = None THEN "KeyError"
        ELSE ""

FirstExc(excs) ==
    LET bad == SelectSeq(excs, LAMBDA e : e # "")
    IN IF bad = <<>> THEN "" ELSE Head(bad)

\* requests.get(url); response.raise_for_status(); response.json()
\* (requests' JSONDecodeError is a RequestException)
CheckedGetExc(resp) ==
    IF resp.kind = "network_error" THEN "RequestException"
    ELSE IF resp.status >= 400 THEN "RequestException"
    ELSE IF resp.json = None THEN "RequestException"
    ELSE ""

\* requests.get(url); response.json()  -- the status is not looked at
UncheckedGetExc(resp) ==
    IF resp.kind = "network_error" THEN "RequestException"
    ELSE IF resp.json = None THEN "RequestException"
    ELSE ""

\* the exception the try body of test_ergast_connection ends with
TestBodyExc(resp) ==
    IF CheckedGetExc(resp) # "" THEN CheckedGetExc(resp)
    ELSE LET info == Lookup(Get(resp.json), <<"MRData", "RaceTable">>)
         IN  IF info = None THEN "KeyError"
             ELSE IF "season" \notin DOMAIN Get(info) THEN "KeyError"
             ELSE IF "total" \notin DOMAIN Get(info) THEN "KeyError"
             ELSE ""

\* test_ergast_connection: only requests.exceptions.RequestException is caught
test_ergast_connection(resp) ==
    LET e == TestBodyExc(resp)
    IN  IF e = "" THEN [ret |-> Some(TRUE), raised |-> ""]
        ELSE IF e = "RequestException" THEN [ret |-> Some(FALSE), raised |-> ""]
        ELSE [ret |-> None, raised |-> e]

\* the exception the try body of one endpoint of explore_available_data ends with
ExploreBodyExc(name, resp) ==
    IF CheckedGetExc(resp) # "" THEN CheckedGetExc(resp)
    ELSE LET doc == Get(resp.json)
         IN CASE name = "Races" ->
                   FirstExc(<<EntryExc(doc, "RaceTable", "Races", <<"raceName">>),
                              EntryExc(doc, "RaceTable", "Races",
                                       <<"Circuit", "circuitName">>)>>)
              [] name = "Results" ->
                   LET res == EntryExc(doc, "RaceTable", "Races", <<"Results">>)
                   IN  IF res # "" THEN res
                       ELSE IF Len(Get(Lookup(doc, <<"MRData", "RaceTable",
                                   "Races">>))[1]["Results"]) = 0
                            THEN "IndexError" ELSE ""
              [] name = "Qualifying" ->
                   LET res == EntryExc(doc, "RaceTable", "Races",
                                       <<"QualifyingResults">>)
                   IN  IF res # "" THEN res
                       ELSE IF Len(Get(Lookup(doc, <<"MRData", "RaceTable",
                                   "Races">>))[1]["QualifyingResults"]) = 0
                            THEN "IndexError" ELSE ""
              [] name = "Drivers" ->
                   IF Lookup(doc, <<"MRData", "DriverTable", "Drivers">>) = None
                   THEN "KeyError" ELSE ""
              [] name = "Constructors" ->
                   IF Lookup(doc, <<"MRData", "ConstructorTable",
                                    "Constructors">>) = None
                   THEN "KeyError" ELSE ""

\* one iteration of explore_available_data: every Exception is caught and
\* printed as "Error accessing {name}"; nothing is returned
explore_endpoint(name, resp) ==
    [error_line |-> ExploreBodyExc(name, resp) # "", raised |-> ""]

\* the first three entries of a result list and the fields printed of them
TopThreeExc(doc, list_key, field) ==
    LET list == Lookup(doc, <<"MRData", "RaceTable", "Races">>)
    IN  IF EntryExc(doc, "RaceTable", "Races", <<list_key>>) # ""
        THEN EntryExc(doc, "RaceTable", "Races", <<list_key>>)
        ELSE LET entries == Get(list)[1][list_key]
             IN  IF Len(entries) < 3 THEN "IndexError"
                 ELSE IF \E i \in 1..3 :
                            \/ Lookup(entries[i], <<"Driver", "familyName">>) = None
                            \/ (field # "" /\ field \notin DOMAIN entries[i])
                      THEN "KeyError"
                 ELSE ""

\* get_sample_race_data: both requests, both files, then the printed
\* analysis; every Exception is caught and the function returns False.
\* files: what has been written when the function returns.
get_sample_race_data(r1, r2) ==
    LET fetch == FirstExc(<<UncheckedGetExc(r1), UncheckedGetExc(r2)>>)
        written == {[name |-> "sample_race_results.json", content |-> Get(r1.json)],
                    [name |-> "sample_qualifying_results.json",
                     content |-> Get(r2.json)]}
    IN  IF fetch # "" THEN [ret |-> Some(FALSE), raised |-> "", files |-> {}]
        ELSE LET e == FirstExc(<<
                        TopThreeExc(Get(r1.json), "Results", ""),
                        TopThreeExc(Get(r2.json), "QualifyingResults", "Q3"),
                        EntryExc(Get(r1.json), "RaceTable", "Races", <<"raceName">>),
                        EntryExc(Get(r1.json), "RaceTable", "Races", <<"date">>)>>)
             IN [ret |-> Some(e = ""), raised |-> "", files |-> written]

----------------------------------------------------------------------------
(* Specification SpecErgast: the __main__ block of ergast_api.py *)

PipelineIdle ==
    /\ pc = "off"
    /\ idx = 0
    /\ fetched = <<>>
    /\ race_data = None
    /\ combined_df = None
    /\ all_race_data = <<>>
    /\ final_dataset = None
    /\ csv_file = None
    /\ log = <<>>
    /\ df = <<>>
    /\ stats = <<None, None>>

pipeline_vars == <<script, pc, idx, fetched, race_data, combined_df,
                   all_race_data, final_dataset, csv_file, log, df, stats>>

InitErgast ==
    /\ script = "ergast"
    /\ PipelineIdle
    /\ ergast = [pc |-> "test", op |-> "", endpoint |-> "", i |-> 1, resp |-> <<>>, ret |-> None,
                 raised |-> "", errors |-> {}, files |-> {}]
    /\ dash = "off"
    /\ comparison = None
    /\ weather_stats = None
    /\ viz = "off"

\* if test_ergast_connection(): ... else: print("Could not connect to API")
TestErgastConnection ==
    /\ script = "ergast"
    /\ ergast.pc = "test"
    /\ \E resp \in Responses(CurrentDocs) :
         LET r == test_ergast_connection(resp)
         IN ergast' = [ergast EXCEPT
                !.op = "test_ergast_connection",
                !.resp = <<resp>>,
                !.ret = r.ret,
                !.raised = r.raised,
                !.pc = IF r.raised # "" THEN "crashed"
                       ELSE IF r.ret = Some(TRUE) THEN "explore" ELSE "done"]
    /\ UNCHANGED <<pipeline_vars, dash, comparison, weather_stats, viz>>

\* explore_available_data, one endpoint of the loop at a time
ExploreEndpoint ==
    /\ script = "ergast"
    /\ ergast.pc = "explore"
    /\ \E resp \in Responses(EndpointDocs(endpoints[ergast.i].name)) :
         LET name == endpoints[ergast.i].name
             r == explore_endpoint(name, resp)
         IN ergast' = [ergast EXCEPT
                !.op = "explore_available_data",
                !.endpoint = name,
                !.resp = <<resp>>,
                !.ret = None,
                !.raised = r.raised,
                !.errors = IF r.error_line THEN @ \cup {name} ELSE @,
                !.i = IF @ < Len(endpoints) THEN @ + 1 ELSE @,
                !.pc = IF r.raised # "" THEN "crashed"
                       ELSE IF ergast.i = Len(endpoints) THEN "sample"
                       ELSE "explore"]
    /\ UNCHANGED <<pipeline_vars, dash, comparison, weather_stats, viz>>

GetSampleRaceData ==
    /\ script = "ergast"
    /\ ergast.pc = "sample"
    /\ \E r1 \in Responses(RaceDocs("Results")),
          r2 \in Responses(RaceDocs("QualifyingResults")) :
         LET r == get_sample_race_data(r1, r2)
         IN ergast' = [ergast EXCEPT
                !.op = "get_sample_race_data",
                !.resp = <<r1, r2>>,
                !.ret = r.ret,
                !.raised = r.raised,
                !.files = r.files,
                !.pc = IF r.raised # "" THEN "crashed" ELSE "done"]
    /\ UNCHANGED <<pipeline_vars, dash, comparison, weather_stats, viz>>

NextErgast ==
    \/ TestErgastConnection
    \/ ExploreEndpoint
    \/ GetSampleRaceData

SpecErgast == InitErgast /\ [][NextErgast]_vars

----------------------------------------------------------------------------
(* Properties of the REST provider *)

ErgastDone(op) == script = "ergast" /\ ergast.op = op

IsHttp(resp) == resp.kind = "http"
Success(resp) == IsHttp(resp) /\ resp.status >= 200 /\ resp.status < 300

\* a successful response whose JSON document lacks one of the given keys
LacksKey(resp, keys) ==
    /\ Success(resp)
    /\ resp.json # None
    /\ Lookup(Get(resp.json), keys) = None

\* C11: after any of the three Ergast operations has processed a successful
\* response whose JSON lacks MRData or the table under it, no KeyError or
\* IndexError has left the operation and the operation has reported failure
\* (False returned, or the endpoint's error line printed).
C11_MissingKeyIsProviderError ==
    /\ (/\ ErgastDone("test_ergast_connection")
        /\ LacksKey(ergast.resp[1], <<"MRData", "RaceTable">>))
       => (ergast.raised = "" /\ ergast.ret = Some(FALSE))
    /\ (/\ ErgastDone("explore_available_data")
        /\ LacksKey(ergast.resp[1], <<"MRData">>))
       => (ergast.raised = "" /\ ergast.endpoint \in ergast.errors)
    /\ (/\ ErgastDone("get_sample_race_data")
        /\ \E k \in 1..2 : LacksKey(ergast.resp[k], <<"MRData", "RaceTable">>))
       => (ergast.raised = "" /\ ergast.ret = Some(FALSE))

\* C12: after any of the three Ergast operations has received a non-2xx
\* HTTP answer, the operation has failed, and get_sample_race_data has
\* written no sample file.
C12_NonSuccessIsFailure ==
    /\ (/\ ErgastDone("test_ergast_connection")
        /\ IsHttp(ergast.resp[1]) /\ ~Success(ergast.resp[1]))
       => ergast.ret = Some(FALSE)
    /\ (/\ ErgastDone("explore_available_data")
        /\ IsHttp(ergast.resp[1]) /\ ~Success(ergast.resp[1]))
       => ergast.endpoint \in ergast.errors
    /\ (/\ ErgastDone("get_sample_race_data")
        /\ \E k \in 1..2 : IsHttp(ergast.resp[k]) /\ ~Success(ergast.resp[k]))
       => (ergast.ret = Some(FALSE) /\ ergast.files = {})

----------------------------------------------------------------------------
(* f1_dashboard.py.  A frame read from a CSV file is its header (the column *)
(* names in file order) and its rows.                                        *)

\* the header of data/processed/day3_full_analysis.csv as the scripts write it
day3_csv_columns ==
    columns \o <<"position_change", "year", "race", "event_name",
                 "weather_condition">>

\* the columns of the exported files whose lower-cased name contains the word
Mentions(word) ==
    CASE word = "position" -> {"quali_position", "race_position", "position_change"}
      [] word = "team" -> {"team"}
      [] word = "race" -> {"race", "race_position"}
      [] word = "event" -> {"event_name"}
      [] word = "weather" -> {"weather_condition"}
      [] word = "condition" -> {"weather_condition"}
      [] OTHER -> {}

\* [col for col in df.columns if any(w in col.lower() for w in words)]
ColumnsWith(frame, words) ==
    SelectSeq(frame.columns, LAMBDA c : \E w \in words : c \in Mentions(w))

\* two events of the season as day3_advanced_analysis.py exports them
SeasonRows ==
    concat(<<set_weather(Get(create_combined_dataframe(
                Some(RaceData(2024, "Bahrain", SampleRace, SampleQuali)))), "Dry"),
             set_weather(Get(create_combined_dataframe(
                Some(RaceData(2024, "Japan", SampleRace, SampleQuali)))), "Wet")>>)

\* a file with the given rows that lacks the dropped columns
CsvFile(rows, dropped) ==
    LET header == SelectSeq(day3_csv_columns, LAMBDA c : c \notin dropped)
    IN [columns |-> header,
        rows |-> [i \in 1..Len(rows) |-> [c \in Range(header) |-> rows[i][c]]]]

DroppedColumns ==
    {{}, {"quali_time"}, {"team"}, {"driver"}, {"weather_condition"},
     {"race_position", "position_change"},
     {"quali_position", "race_position", "position_change"},
     {"race", "event_name"}}

\* what can be at data/processed/day3_full_analysis.csv: nothing, or a file
MainFiles ==
    {None, Some(CsvFile(<<>>, {}))}
        \cup {Some(CsvFile(SeasonRows, dropped)) : dropped \in DroppedColumns}

\* what can be at data/processed/day2_analysis_data.csv
Day2Files == {None, Some(CsvFile(SeasonRows, {"weather_condition"}))}

\* load_f1_data: both files or, if one is not found, st.error and (None, None)
load_f1_data(disk) ==
    IF disk.main = None \/ disk.day2 = None
    THEN [ret |-> <<None, None>>, error |-> TRUE]
    ELSE [ret |-> <<disk.main, disk.day2>>, error |-> FALSE]

WithRows(frame, rows) == [columns |-> frame.columns, rows |-> rows]

AllRaces == "All Races Combined"
Individual == "Individual Race Analysis"

\* race_cols of main()
race_cols(main_data) ==
    SelectSeq(ColumnsWith(main_data, {"race", "event", "session", "grand", "gp"}),
              LAMBDA c : c \notin Mentions("position"))

\* the options of the "Select Race:" box; the box yields None without options
RaceOptions(main_data) ==
    IF race_cols(main_data) = <<>> THEN {""}
    ELSE LET vals == {main_data.rows[i][race_cols(main_data)[1]]
                         : i \in 1..Len(main_data.rows)}
         IN IF vals = {} THEN {"None"} ELSE vals

\* filtered_data = main_data.copy() and the individual race selection
apply_filter_InPlace(main_data, scope, selected_race) ==
    IF scope = Individual /\ race_cols(main_data) # <<>>
    THEN LET kept == WithRows(main_data, SelectSeq(main_data.rows,
                LAMBDA r : r[race_cols(main_data)[1]] = selected_race))
         IN [main_data |-> kept, filtered_data |-> kept,
             race_info |-> selected_race, warnings |-> {}]
    ELSE [main_data |-> main_data,
          filtered_data |-> main_data,
          race_info |-> AllRaces,
          warnings |-> IF scope = Individual THEN {"No race data found"} ELSE {}]

apply_filter_Excluding(main_data, scope, selected_race) ==
    IF scope = Individual /\ race_cols(main_data) # <<>>
    THEN [main_data |-> main_data,
          filtered_data |-> WithRows(main_data, SelectSeq(main_data.rows,
                LAMBDA r : r[race_cols(main_data)[1]] # selected_race)),
          race_info |-> selected_race,
          warnings |-> {}]
    ELSE [main_data |-> main_data,
          filtered_data |-> main_data,
          race_info |-> AllRaces,
          warnings |-> IF scope = Individual THEN {"No race data found"} ELSE {}]

apply_filter(main_data, scope, selected_race) ==
    IF scope = Individual /\ race_cols(main_data) # <<>>
    THEN [main_data |-> main_data,
          filtered_data |-> WithRows(main_data, SelectSeq(main_data.rows,
                LAMBDA r : r[race_cols(main_data)[1]] = selected_race)),
          race_info |-> selected_race,
          warnings |-> {}]
    ELSE [main_data |-> main_data,
          filtered_data |-> main_data,
          race_info |-> AllRaces,
          warnings |-> IF scope = Individual THEN {"No race data found"} ELSE {}]

NoChart(warning) == [fig |-> FALSE, warnings |-> warning, raised |-> ""]
Chart == [fig |-> TRUE, warnings |-> {}, raised |-> ""]

HasColumn(frame, c) == c \in Range(frame.columns)

\* an exported time is text of the form "0 days 00:01:29.179000", which
\* time_to_seconds converts; only rows with a time and a team are plotted
create_qualifying_chart(frame) ==
    IF ~HasColumn(frame, "quali_time") \/ ~HasColumn(frame, "team")
    THEN NoChart({"Missing qualifying time or team data"})
    ELSE IF SelectSeq(frame.rows, LAMBDA r : r.quali_time # NaN /\ r.team # NaN) = <<>>
    THEN NoChart({"No qualifying data available"})
    ELSE IF ~HasColumn(frame, "driver")
    THEN [fig |-> FALSE, warnings |-> {}, raised |-> "ValueError"]
    ELSE Chart

create_position_change_histogram(frame) ==
    IF Len(ColumnsWith(frame, {"position"})) < 2 THEN NoChart({}) ELSE Chart

create_team_performance_chart(frame) ==
    IF ColumnsWith(frame, {"position"}) = <<>> \/ ColumnsWith(frame, {"team"}) = <<>>
    THEN NoChart({}) ELSE Chart

create_weather_chart(frame) ==
    IF \/ ColumnsWith(frame, {"weather", "rain", "temp", "condition"}) = <<>>
       \/ ColumnsWith(frame, {"position"}) = <<>>
    THEN NoChart({"No weather data found"}) ELSE Chart

\* the four tabs in order; an exception in one ends the script run there
RECURSIVE RenderTabs(_, _)
RenderTabs(tabs, acc) ==
    IF tabs = <<>> \/ acc.raised # "" THEN acc
    ELSE LET t == Head(tabs)
         IN RenderTabs(Tail(tabs),
              [charts |-> IF t.out.fig THEN acc.charts \cup {t.name} ELSE acc.charts,
               warnings |-> acc.warnings \cup t.out.warnings,
               raised |-> t.out.raised])

Tabs(frame) ==
    <<[name |-> "Qualifying Performance", out |-> create_qualifying_chart(frame)],
      [name |-> "Position Changes", out |-> create_position_change_histogram(frame)],
      [name |-> "Team Comparison", out |-> create_team_performance_chart(frame)],
      [name |-> "Weather Impact", out |-> create_weather_chart(frame)]>>

\* the file offered by the download button
download(view, scope) ==
    [file_name |-> IF scope = Individual THEN <<"f1_data_", view.race_info>>
                   ELSE <<"f1_data_all.csv">>,
     data |-> view.filtered_data]

\* main(): one run of the script, given what load_f1_data returned, the
\* chosen scope and the chosen race
main(loaded, scope, selected_race) ==
    IF loaded.ret[1] = None
    THEN [main_data |-> None, filtered_data |-> None, scope |-> scope,
          race_info |-> "", charts |-> {}, warnings |-> {},
          error |-> loaded.error, stopped |-> TRUE, raised |-> "",
          button |-> FALSE, download |-> None]
    ELSE LET view == apply_filter(Get(loaded.ret[1]), scope, selected_race)
             tabs == RenderTabs(Tabs(view.filtered_data),
                        [charts |-> {}, warnings |-> view.warnings, raised |-> ""])
         IN [main_data |-> Some(view.main_data),
             filtered_data |-> Some(view.filtered_data),
             scope |-> scope,
             race_info |-> view.race_info,
             charts |-> tabs.charts,
             warnings |-> tabs.warnings,
             error |-> loaded.error,
             stopped |-> FALSE,
             raised |-> tabs.raised,
             button |-> TRUE,
             download |-> IF tabs.raised = "" THEN Some(download(view, scope))
                          ELSE None]

\* the widget values a run can see: the scope radio and the race box
WidgetInputs(loaded) ==
    {<<AllRaces, "">>} \cup
    {<<Individual, r>> : r \in IF loaded.ret[1] = None THEN {""}
                               ELSE RaceOptions(Get(loaded.ret[1]))}

----------------------------------------------------------------------------
(* Specification SpecDashboard: a dashboard session.  disk: the two exported *)
(* files; cache: the memoised result of load_f1_data; page: what the last    *)
(* run of main() produced; downloaded: the file the user last downloaded.    *)

BlankPage ==
    [main_data |-> None, filtered_data |-> None, scope |-> AllRaces,
     race_info |-> "", charts |-> {}, warnings |-> {}, error |-> FALSE,
     stopped |-> FALSE, raised |-> "", button |-> FALSE, download |-> None]

InitDashboard ==
    /\ script = "dashboard"
    /\ PipelineIdle
    /\ ergast = "off"
    /\ comparison = None
    /\ weather_stats = None
    /\ viz = "off"
    /\ \E m \in MainFiles, d \in Day2Files :
         dash = [disk |-> [main |-> m, day2 |-> d], cache |-> None,
                 page |-> BlankPage, downloaded |-> None, last |-> ""]

\* @st.cache_data: the stored result if there is one, else a call
cached_load(d) == IF d.cache = None THEN load_f1_data(d.disk) ELSE Get(d.cache)

\* the page is opened, or a widget is changed: the script runs
RunDashboard ==
    /\ script = "dashboard"
    /\ LET loaded == cached_load(dash)
       IN \E w \in WidgetInputs(loaded) :
            dash' = [dash EXCEPT !.cache = Some(loaded),
                                 !.page = main(loaded, w[1], w[2]),
                                 !.last = "RunDashboard"]
    /\ UNCHANGED <<pipeline_vars, ergast, comparison, weather_stats, viz>>

\* if st.button("Refresh Data"): st.cache_data.clear(); st.rerun()
RefreshData ==
    /\ script = "dashboard"
    /\ dash.page.button
    /\ LET loaded == load_f1_data(dash.disk)
       IN \E w \in WidgetInputs(loaded) :
            /\ w[1] = dash.page.scope
            /\ dash' = [dash EXCEPT !.cache = Some(loaded),
                                    !.page = main(loaded, w[1], w[2]),
                                    !.last = "RefreshData"]
    /\ UNCHANGED <<pipeline_vars, ergast, comparison, weather_stats, viz>>

\* st.download_button: the browser saves the prepared data
DownloadCsv ==
    /\ script = "dashboard"
    /\ dash.page.download # None
    /\ dash' = [dash EXCEPT !.downloaded = dash.page.download,
                            !.last = "DownloadCsv"]
    /\ UNCHANGED <<pipeline_vars, ergast, comparison, weather_stats, viz>>

\* outside the dashboard: the collection scripts are run again, or the files
\* are removed
ExportFiles ==
    /\ script = "dashboard"
    /\ \E m \in MainFiles, d \in Day2Files :
         /\ [main |-> m, day2 |-> d] # dash.disk
         /\ dash' = [dash EXCEPT !.disk = [main |-> m, day2 |-> d],
                                 !.last = "ExportFiles"]
    /\ UNCHANGED <<pipeline_vars, ergast, comparison, weather_stats, viz>>

NextDashboard ==
    \/ RunDashboard
    \/ RefreshData
    \/ DownloadCsv
    \/ ExportFiles

SpecDashboard == InitDashboard /\ [][NextDashboard]_vars

----------------------------------------------------------------------------
(* Properties of the dashboard *)

Rendered == script = "dashboard" /\ dash.page.main_data # None

ChartNames ==
    {"Qualifying Performance", "Position Changes", "Team Comparison",
     "Weather Impact"}

\* the chart cannot be drawn from the frame: a column it plots is not there
LacksColumnFor(chart, frame) ==
    CASE chart = "Qualifying Performance" ->
            ~HasColumn(frame, "quali_time") \/ ~HasColumn(frame, "team")
      [] chart = "Position Changes" ->
            ~HasColumn(frame, "quali_position") \/ ~HasColumn(frame, "race_position")
      [] chart = "Team Comparison" ->
            ~HasColumn(frame, "team") \/ ~HasColumn(frame, "quali_position")
      [] chart = "Weather Impact" ->
            ~HasColumn(frame, "weather_condition")
                \/ ~HasColumn(frame, "quali_position")

\* C13: on every rendered page over a file with rows, each of the four
\* charts that lacks a column is skipped with a warning on the page, and
\* every chart that has its columns is drawn.
C13_MissingColumnSkipsOneChart ==
    (Rendered /\ Get(dash.page.main_data).rows # <<>>) =>
       LET frame == Get(dash.page.filtered_data)
       IN \A chart \in ChartNames :
            IF LacksColumnFor(chart, frame)
            THEN chart \notin dash.page.charts /\ dash.page.warnings # {}
            ELSE dash.page.raised = "" => chart \in dash.page.charts

\* C17: no step of the dashboard changes the exported files; a run that
\* finds a cached load leaves it as it is; and on every rendered page the
\* full dataset is what load_f1_data returned, whatever filter was applied,
\* the filtered view being rows of it.
C17_DashboardReadOnly ==
    /\ [][dash'.last # "ExportFiles" => dash'.disk = dash.disk]_vars
    /\ [][(dash'.last = "RunDashboard" /\ dash.cache # None)
            => dash'.cache = dash.cache]_vars
    /\ [](Rendered =>
            /\ dash.page.main_data = Get(dash.cache).ret[1]
            /\ Range(Get(dash.page.filtered_data).rows)
                  \subseteq Range(Get(dash.page.main_data).rows))

\* a race has been selected: the view has some of the rows, the full dataset
\* all of them
C17_Witness ==
    /\ Rendered
    /\ dash.page.scope = Individual
    /\ dash.page.race_info = "Japan"
    /\ Get(dash.page.filtered_data).rows # <<>>
    /\ Len(Get(dash.page.filtered_data).rows) < Len(Get(dash.page.main_data).rows)
    /\ Get(dash.page.main_data).rows = SeasonRows

----------------------------------------------------------------------------
(* Null positions in the collected dataset *)

\* the Position a session table gives a driver: NaN if the driver is not in
\* the table or has no classification
PositionIn(table, d) ==
    LET ps == {table[i].Position : i \in {k \in 1..Len(table) :
                                            table[k].Abbreviation = d}}
    IN IF ps = {} THEN NaN ELSE CHOOSE p \in ps : TRUE

\* the drivers of a fetched event who lack a position in one of the sessions
Unclassified(data) ==
    {d \in DriversOf(data.quali_results) \cup DriversOf(data.race_results) :
        \/ PositionIn(data.quali_results, d) = NaN
        \/ PositionIn(data.race_results, d) = NaN}

\* the frame of one event: every row carries the two positions of its driver
\* exactly as the session tables of the event have them, and every driver
\* who lacks a position has a row
FrameAsFetched(frame) ==
    frame # <<>> =>
       LET data == Get(fetched[EventIndex(frame[1].race)])
       IN /\ \A n \in 1..Len(frame) :
               /\ frame[n].quali_position
                     = PositionIn(data.quali_results, frame[n].driver)
               /\ frame[n].race_position
                     = PositionIn(data.race_results, frame[n].driver)
          /\ \A d \in Unclassified(data) :
               \E n \in 1..Len(frame) : frame[n].driver = d

\* C14: a driver without a qualifying or a finishing position keeps a null
\* position (no substitute value) and keeps the row in the frame of the
\* event; the concatenated dataset is the rows of the frames, unchanged and
\* all of them, and the exported file is the dataset.
C14_NullPositionsKept ==
    Pipeline =>
       /\ \A k \in 1..Len(all_race_data) : FrameAsFetched(all_race_data[k])
       /\ final_dataset # None => Get(final_dataset) = Flatten(all_race_data)
       /\ csv_file # None => csv_file = final_dataset

\* an exported file with a driver who only raced and one who qualified
\* without a classification
C14_Witness ==
    /\ Pipeline
    /\ pc = "done"
    /\ csv_file # None
    /\ \E n \in 1..Len(Get(csv_file)) :
          /\ Get(csv_file)[n].quali_position = NaN
          /\ Get(csv_file)[n].race_position = NaN
          /\ Get(csv_file)[n].position_change = NaN
    /\ \E n \in 1..Len(Get(csv_file)) : Get(csv_file)[n].quali_position # NaN

----------------------------------------------------------------------------
(* day3_advanced_analysis.py: the per-group summaries *)

MaxGroupRows == 2

\* df['col'].unique() without the nulls, and with them
Values(frame, col) == {frame[i][col] : i \in 1..Len(frame)}

\* df[df[col] == value]
Where(frame, col, value) == SelectSeq(frame, LAMBDA row : row[col] = value)

\* weather_impact_analysis: per weather condition the mean and the standard
\* deviation of quali_position and the number of rows
weather_impact_analysis(frame) ==
    [condition \in Values(frame, "weather_condition") |->
        LET condition_df == Where(frame, "weather_condition", condition)
        IN [avg_position |-> mean(Column(condition_df, "quali_position")),
            std_position |-> std(Column(condition_df, "quali_position")),
            races |-> Len(condition_df)]]

\* a < b for two fractions
Less(a, b) == a.num * b.den < b.num * a.den

\* df.groupby('team')['quali_position'].mean().sort_values().head(3).index:
\* null teams form no group; a team without any position sorts last
top_teams(frame) ==
    LET teams == Values(frame, "team") \ {NaN}
        avg(t) == mean(Column(Where(frame, "team", t), "quali_position"))
        Before(u, t) == /\ avg(u) # NaN
                        /\ (avg(t) = NaN \/ Less(Get(avg(u)), Get(avg(t))))
    IN {t \in teams : Cardinality({u \in teams : Before(u, t)}) < 3}

\* team_performance_deep_dive: the lines it prints, one per top team and
\* weather condition of that team
team_performance_deep_dive(frame) ==
    {[team |-> Get(t), condition |-> c,
      avg_pos |-> mean(Column(Where(Where(frame, "team", t),
                                    "weather_condition", c), "quali_position")),
      races |-> Len(Where(Where(frame, "team", t), "weather_condition", c))]
        : t \in top_teams(frame),
          c \in Values(frame, "weather_condition")}
      \ {[team |-> Get(t), condition |-> c, avg_pos |-> NaN, races |-> 0]
            : t \in top_teams(frame), c \in Values(frame, "weather_condition")}

\* rows of the season dataset that differ in what the summaries read
SummaryRow(qpos, rpos, team, weather) ==
    [weather_condition |-> weather] @@ [DatasetRow(qpos, rpos) EXCEPT !.team = team]

SummaryRows ==
    {SummaryRow(q, r, t, w) : q \in NullablePos, r \in {NaN, Some(1)},
                              t \in {NaN, Some(Teams[1])}, w \in {"Dry", "Wet"}}

InitSummary ==
    /\ script = "summary"
    /\ pc = "off"
    /\ idx = 0
    /\ fetched = <<>>
    /\ race_data = None
    /\ combined_df = None
    /\ all_race_data = <<>>
    /\ final_dataset = None
    /\ csv_file = None
    /\ log = <<>>
    /\ df = <<>>
    /\ stats = <<None, None>>
    /\ ergast = "off"
    /\ dash = "off"
    /\ comparison = None
    /\ weather_stats = None
    /\ viz = "off"

\* main of day3_advanced_analysis.py over a dataset with one more row:
\* weather_results = weather_impact_analysis(df); team_performance_deep_dive(df)
SummariseSeason ==
    /\ script = "summary"
    /\ Len(df) < MaxGroupRows
    /\ \E row \in SummaryRows :
         /\ df' = Append(df, row)
         /\ weather_stats' = Some(weather_impact_analysis(df'))
         /\ log' = team_performance_deep_dive(df')
    /\ UNCHANGED <<script, pc, idx, fetched, race_data, combined_df,
                   all_race_data, final_dataset, csv_file, stats, ergast, dash,
                   comparison, viz>>

NextSummary == SummariseSeason

SpecSummary == InitSummary /\ [][NextSummary]_vars

\* the value a group summary must have by the rule "only rows with both
\* positions enter the mean"
ComparableRows(frame) == SelectSeq(frame, Comparable)

\* the sum of the counts n of a set of <<group, n>> pairs
RECURSIVE SumCounts(_)
SumCounts(S) ==
    IF S = {} THEN 0
    ELSE LET x == CHOOSE y \in S : TRUE IN x[2] + SumCounts(S \ {x})

\* C15: in the summaries by weather condition and by team, a group's mean
\* and standard deviation are those of its rows with both positions, its
\* row count is the number of all its rows, and the row counts of the
\* groups of either summary add up to the number of rows of the dataset.
C15_GroupSummaries ==
    (script = "summary" /\ weather_stats # None) =>
       LET w == Get(weather_stats)
       IN /\ \A c \in DOMAIN w :
               LET rows == Where(df, "weather_condition", c)
                   clean == ComparableRows(rows)
               IN /\ w[c].avg_position = mean(Column(clean, "quali_position"))
                  /\ w[c].std_position = std(Column(clean, "quali_position"))
                  /\ w[c].races = Len(rows)
          /\ SumCounts({<<c, w[c].races>> : c \in DOMAIN w}) = Len(df)
          /\ \A l \in log :
               LET rows == Where(Where(df, "team", Some(l.team)),
                                 "weather_condition", l.condition)
               IN /\ l.avg_pos = mean(Column(ComparableRows(rows), "quali_position"))
                  /\ l.races = Len(rows)
          /\ SumCounts({<<l, l.races>> : l \in log}) = Len(df)

----------------------------------------------------------------------------
(* An event without any result *)

BothTablesEmpty ==
    /\ race_data # None
    /\ Get(race_data).quali_results = <<>>
    /\ Get(race_data).race_results = <<>>

\* C16: create_combined_dataframe of an event whose qualifying table and
\* race table are both empty returns a frame of zero rows, not None.
C16_EmptyTablesGiveEmptyFrame ==
    (Reconciled /\ BothTablesEmpty) =>
       /\ combined_df # None
       /\ Get(combined_df) = <<>>
       /\ Len(Get(combined_df)) = 0

C16_Witness ==
    /\ Reconciled
    /\ BothTablesEmpty
    /\ combined_df = Some(<<>>)

----------------------------------------------------------------------------
(* The places that derive a position change: analyze_sample_data of         *)
(* fastf1_collector.py and calculate_metrics and                            *)
(* create_position_change_histogram of f1_dashboard.py                      *)

\* pd.merge(quali_results, race_results, on='Driver', how='inner'): the left
\* rows in their order, each with every right row of the same driver
merge_on_Driver(quali_results, race_results) ==
    Flatten([i \in 1..Len(quali_results) |->
        LET R == SelectSeq(race_results,
                           LAMBDA r : r.Driver = quali_results[i].Driver)
        IN [j \in 1..Len(R) |->
               [QualiPos |-> quali_results[i].QualiPos,
                Driver |-> quali_results[i].Driver,
                RacePos |-> R[j].RacePos]]])

\* analyze_sample_data: the comparison frame, and whether the printing of
\* its first ten rows raised (int() of a null), which the function catches
analyze_sample_data(rd) ==
    IF rd = None THEN None
    ELSE
    LET quali_results == [i \in 1..Len(Get(rd).quali_results) |->
                            [QualiPos |-> Get(rd).quali_results[i].Position,
                             Driver |-> Get(rd).quali_results[i].Abbreviation]]
        race_results == [i \in 1..Len(Get(rd).race_results) |->
                            [RacePos |-> Get(rd).race_results[i].Position,
                             Driver |-> Get(rd).race_results[i].Abbreviation]]
        merged == merge_on_Driver(quali_results, race_results)
        comp == [i \in 1..Len(merged) |->
                    [PositionChange |-> Minus(merged[i].QualiPos, merged[i].RacePos)]
                        @@ merged[i]]
    IN Some([comparison |-> comp,
             error |-> \E i \in 1..Len(comp) :
                          i <= 10 /\ comp[i].PositionChange = NaN])

\* df[pos_cols[1]] - df[pos_cols[0]] of a frame with two position columns
position_changes_Reversed(frame) ==
    LET pos_cols == ColumnsWith(frame, {"position"})
    IN [i \in 1..Len(frame.rows) |->
           Minus(frame.rows[i][pos_cols[1]], frame.rows[i][pos_cols[2]])]

position_changes(frame) ==
    LET pos_cols == ColumnsWith(frame, {"position"})
    IN [i \in 1..Len(frame.rows) |->
           Minus(frame.rows[i][pos_cols[2]], frame.rows[i][pos_cols[1]])]

\* Series.min() and Series.max(): over the values present
MinOf(xs) ==
    LET v == {Get(xs[i]) : i \in {k \in 1..Len(xs) : xs[k] # NaN}}
    IN IF v = {} THEN NaN ELSE Some(CHOOSE m \in v : \A x \in v : m <= x)

MaxOf(xs) ==
    LET v == {Get(xs[i]) : i \in {k \in 1..Len(xs) : xs[k] # NaN}}
    IN IF v = {} THEN NaN ELSE Some(CHOOSE m \in v : \A x \in v : m >= x)

\* calculate_metrics: the dictionary, as a function of its keys
calculate_metrics(data) ==
    IF data = None THEN <<>>
    ELSE IF Get(data).rows = <<>> THEN <<>>
    ELSE
    LET frame == Get(data)
        pos_cols == ColumnsWith(frame, {"position"})
        team_cols == ColumnsWith(frame, {"team"})
        correlation == corr(Column(frame.rows, pos_cols[1]),
                            Column(frame.rows, pos_cols[2]))
        pos_changes == position_changes(frame)
    IN  (IF Len(pos_cols) >= 2
         THEN [qualifying_correlation |-> correlation,
               r_squared |-> Squared(correlation),
               avg_position_change |-> mean(pos_changes),
               biggest_gain |-> MinOf(pos_changes),
               biggest_loss |-> MaxOf(pos_changes)]
         ELSE <<>>)
        @@ (IF team_cols # <<>>
            THEN [total_teams |-> nunique(frame.rows, team_cols[1])]
            ELSE <<>>)
        @@ [total_records |-> Len(frame.rows)]

\* the file data_collection.py writes for one event
ExportedEvent(rd) ==
    IF create_combined_dataframe(rd) = None THEN None
    ELSE Some(CsvFile(Get(create_combined_dataframe(rd)), {"weather_condition"}))

InitPositionChange ==
    /\ script = "position_change"
    /\ pc = "input"
    /\ race_data \in {None} \cup {Some(rd) : rd \in ReconcileInputs}
    /\ idx = 0
    /\ fetched = <<>>
    /\ combined_df = None
    /\ all_race_data = <<>>
    /\ final_dataset = None
    /\ csv_file = None
    /\ log = <<>>
    /\ df = <<>>
    /\ stats = <<None, None>>
    /\ OthersIdle

\* the same event goes through the collector's comparison, through
\* create_combined_dataframe and its export, and that file through the
\* dashboard's metrics and histogram
DerivePositionChange ==
    /\ script = "position_change"
    /\ pc = "input"
    /\ combined_df' = create_combined_dataframe(race_data)
    /\ csv_file' = ExportedEvent(race_data)
    /\ comparison' =
          Some([collector |-> analyze_sample_data(race_data),
                metrics |-> calculate_metrics(csv_file'),
                histogram |-> IF csv_file' = None THEN None
                              ELSE Some(position_changes(Get(csv_file')))])
    /\ pc' = "derived"
    /\ UNCHANGED <<script, idx, fetched, race_data, all_race_data,
                   final_dataset, log, df, stats, ergast, dash, weather_stats, viz>>

NextPositionChange == DerivePositionChange

SpecPositionChange == InitPositionChange /\ [][NextPositionChange]_vars

Derived == script = "position_change" /\ pc = "derived" /\ race_data # None

\* C19: for one event, the position change the collector's comparison gives
\* a driver, the changes the dashboard histogram plots and the changes the
\* dashboard metrics summarise are the values of the dataset's
\* position_change column (race position minus qualifying position).
C19_SamePositionChange ==
    Derived =>
       LET D == Get(combined_df)
           c == Get(Get(comparison).collector).comparison
           changes == Column(D, "position_change")
       IN /\ \A i \in 1..Len(c) : \A n \in 1..Len(D) :
                (/\ D[n].driver = c[i].Driver
                 /\ D[n].quali_position = c[i].QualiPos
                 /\ D[n].race_position = c[i].RacePos)
                => c[i].PositionChange = D[n].position_change
          /\ Get(Get(comparison).histogram) = changes
          /\ D # <<>> =>
                /\ Get(comparison).metrics.avg_position_change = mean(changes)
                /\ Get(comparison).metrics.biggest_gain = MinOf(changes)
                /\ Get(comparison).metrics.biggest_loss = MaxOf(changes)

\* C20: when each driver code occurs at most once per table, the collector's
\* comparison has exactly one row for every driver of either session, with
\* a null position for the session the driver is not in.
C20_ComparisonKeepsEveryDriver ==
    Derived =>
       LET q == Get(race_data).quali_results
           r == Get(race_data).race_results
           c == Get(Get(comparison).collector).comparison
       IN (UniqueKeys(q) /\ UniqueKeys(r)) =>
             /\ \A d \in DriversOf(q) \cup DriversOf(r) :
                   Cardinality({i \in 1..Len(c) : c[i].Driver = d}) = 1
             /\ \A i \in 1..Len(c) :
                   /\ c[i].Driver \notin DriversOf(r) => c[i].RacePos = NaN
                   /\ c[i].Driver \notin DriversOf(q) => c[i].QualiPos = NaN

----------------------------------------------------------------------------
(* The order of the steps of a multi-event run *)

Successes == Cardinality({i \in 1..Len(fetched) : fetched[i] # None})

\* C21: a fetch starts only at the top of the loop, when every earlier
\* event has been fetched and, if its fetch succeeded, reconciled and
\* appended; the dataset is concatenated and exported only when every
\* requested event has been processed.
C21_OneEventAtATime ==
    [][Pipeline =>
        /\ fetched' # fetched =>
              /\ pc = "loop"
              /\ Len(fetched) = idx - 1
              /\ Len(fetched') = idx
              /\ Len(all_race_data) = Successes
        /\ all_race_data' # all_race_data =>
              /\ pc = "fetched"
              /\ Len(fetched) = idx
              /\ Len(all_race_data') = Successes
        /\ (final_dataset' # final_dataset \/ csv_file' # csv_file) =>
              /\ Len(fetched) = Len(Requests(script))
              /\ Len(all_race_data) = Successes]_vars

\* the third event has been fetched after the first was appended and the
\* second had failed
C21_Witness ==
    /\ Pipeline
    /\ pc = "fetched"
    /\ idx = 3
    /\ fetched[1] # None
    /\ fetched[2] = None
    /\ fetched[3] # None
    /\ Len(all_race_data) = 1

----------------------------------------------------------------------------
(* The views of the dashboard *)

\* the field of the exported dataset that names the event of a row
EventField(frame) == IF HasColumn(frame, "race") THEN "race" ELSE "event_name"

HasEventField(frame) == HasColumn(frame, "race") \/ HasColumn(frame, "event_name")

----------------------------------------------------------------------------
(* day4_visualizations.py.  Writing or showing a figure can fail (the file  *)
(* cannot be written, the display cannot be opened): `fails` says whether   *)
(* it does.  A chart function yields the file it wrote (None if it wrote    *)
(* none), the lines it printed and whether it raised.                       *)

ChartResult(file, out, raised) == [file |-> file, out |-> out, raised |-> raised]

\* a figure is drawn, saved and shown, or that raises
SaveFigure(title, file, fails) ==
    IF fails THEN ChartResult(None, <<title>>, TRUE)
    ELSE ChartResult(Some(file), <<title>>, FALSE)

\* day4_visualizations.py: create_team_performance_chart
viz_team_performance_chart(frame, fails) ==
    IF ColumnsWith(frame, {"position"}) = <<>> \/ ColumnsWith(frame, {"team"}) = <<>>
    THEN ChartResult(None, <<"Creating team performance chart...",
                             "Missing required data columns">>, FALSE)
    ELSE SaveFigure("Creating team performance chart...",
                    "team_performance_analysis.png", fails)

create_weather_analysis_chart(frame, fails) ==
    IF ColumnsWith(frame, {"weather", "condition"}) = <<>>
    THEN ChartResult(None, <<"Creating weather analysis...",
                             "No weather data found">>, FALSE)
    ELSE SaveFigure("Creating weather analysis...",
                    "weather_impact_analysis.png", fails)

create_interactive_dashboard(frame, fails) ==
    IF fails THEN ChartResult(None, <<"Creating interactive dashboard...">>, TRUE)
    ELSE ChartResult(Some("interactive_dashboard.html"),
                     <<"Creating interactive dashboard...",
                       "Saved interactive dashboard to HTML">>, FALSE)

create_summary_visualization(frame, fails) ==
    IF ColumnsWith(frame, {"team"}) = <<>> \/ ColumnsWith(frame, {"position"}) = <<>>
    THEN ChartResult(None, <<"Creating summary visualization...",
                             "Missing data for summary">>, FALSE)
    ELSE SaveFigure("Creating summary visualization...",
                    "performance_summary.png", fails)

\* the four steps of the try block of main, with the line printed before each
VizSteps ==
    <<"1. Team Performance Analysis...", "2. Weather Impact Analysis...",
      "3. Interactive Dashboard...", "4. Summary Visualization...">>

VizStep(i, frame, fails) ==
    CASE i = 1 -> viz_team_performance_chart(frame, fails)
      [] i = 2 -> create_weather_analysis_chart(frame, fails)
      [] i = 3 -> create_interactive_dashboard(frame, fails)
      [] i = 4 -> create_summary_visualization(frame, fails)

\* load_data of day4_visualizations.py: both files, or (None, None)
load_data(disk) ==
    IF disk.main = None \/ disk.day2 = None
    THEN [ret |-> <<None, None>>, out |-> <<"Could not load data">>]
    ELSE [ret |-> <<disk.main, disk.day2>>,
          out |-> <<"Loaded main data", "Loaded day 2 data">>]

InitViz ==
    /\ script = "day4"
    /\ PipelineIdle
    /\ ergast = "off"
    /\ dash = "off"
    /\ comparison = None
    /\ weather_stats = None
    /\ \E m \in MainFiles, d \in Day2Files :
         viz = [pc |-> "load", disk |-> [main |-> m, day2 |-> d],
                main_data |-> None, i |-> 1, attempted |-> {}, failed |-> {},
                files |-> {}, log |-> <<>>]

\* main: main_data, day2_data = load_data(); if main_data is None: return
LoadData ==
    /\ script = "day4"
    /\ viz.pc = "load"
    /\ LET r == load_data(viz.disk)
       IN viz' = [viz EXCEPT
             !.main_data = r.ret[1],
             !.log = IF r.ret[1] = None
                     THEN r.out \o <<"No data to visualize">>
                     ELSE r.out \o <<"Creating visualizations...">>,
             !.pc = IF r.ret[1] = None THEN "done" ELSE "charts"]
    /\ UNCHANGED <<pipeline_vars, ergast, dash, comparison, weather_stats>>

\* one step of the try block; an exception of any step goes to the one
\* handler of main, which ends the function
CreateChart ==
    /\ script = "day4"
    /\ viz.pc = "charts"
    /\ \E fails \in BOOLEAN :
         LET r == VizStep(viz.i, Get(viz.main_data), fails)
         IN viz' = [viz EXCEPT
               !.attempted = @ \cup {VizSteps[viz.i]},
               !.failed = IF r.raised THEN @ \cup {VizSteps[viz.i]} ELSE @,
               !.files = @ \cup r.file,
               !.log = @ \o <<VizSteps[viz.i]>> \o r.out \o
                       (IF r.raised
                        THEN <<"Error creating visualizations",
                               "Check data format and column names">>
                        ELSE IF viz.i = Len(VizSteps)
                        THEN <<"All visualizations saved to: visualizations/",
                               "Day 4 Complete!">>
                        ELSE <<>>),
               !.i = IF r.raised \/ viz.i = Len(VizSteps) THEN @ ELSE @ + 1,
               !.pc = IF r.raised \/ viz.i = Len(VizSteps) THEN "done"
                      ELSE "charts"]
    /\ UNCHANGED <<pipeline_vars, ergast, dash, comparison, weather_stats>>

NextViz ==
    \/ LoadData
    \/ CreateChart

SpecViz == InitViz /\ [][NextViz]_vars

\* C23: when main has ended over loaded data, every one of the four chart
\* steps has been run, whichever of them failed, and the output names each
\* step that failed; only with no data does main end without charts.
C23_ChartFailureIsLocal ==
    (script = "day4" /\ viz.pc = "done") =>
       IF viz.main_data = None
       THEN viz.attempted = {} /\ viz.files = {}
       ELSE /\ viz.attempted = Range(VizSteps)
            /\ \A step \in viz.failed : \E n \in 1..Len(viz.log) : viz.log[n] = step

----------------------------------------------------------------------------
\* the records an event can yield: both result tables of one answer of the
\* provider in which neither session failed, with the event's metadata
CompleteRecords(race_name) ==
    {Some(RaceData(2024, race_name, resp.race_results, resp.quali_results)) :
        resp \in {p \in ProviderResponses : p.error = ""}}

\* C24: fetching an event yields either None or a record that holds both
\* result tables of a fully loaded event and its metadata, never a record
\* with one table only; an event that yielded None is not reconciled and
\* adds nothing to the collected frames.
C24_AllOrNothing ==
    [][Pipeline =>
        /\ fetched' # fetched =>
              LET r == fetched'[Len(fetched')]
              IN /\ r \in {None} \cup CompleteRecords(Requests(script)[idx].race_name)
                 /\ race_data' = r
                 /\ all_race_data' = all_race_data
                 /\ r = None => pc' # "fetched"
        /\ all_race_data' # all_race_data =>
              /\ race_data # None
              /\ race_data = fetched[Len(fetched)]]_vars

C24_Witness ==
    /\ Pipeline /\ pc = "loop" /\ idx = 3
    /\ fetched[1] = None /\ fetched[2] # None
    /\ Get(fetched[2]).quali_results = SampleQuali
    /\ Get(fetched[2]).race_results = SampleRace
    /\ Len(all_race_data) = 1

----------------------------------------------------------------------------
(* The dashboard's metrics and the pipeline's statistics of one dataset:    *)
(* the rows as data_collection.py exports them, read back by the dashboard. *)

InitMetrics ==
    /\ script = "metrics"
    /\ pc = "analyzed"
    /\ df = <<>>
    /\ stats = analyze_qualifying_performance(df)
    /\ comparison = Some(calculate_metrics(Some(CsvFile(df, {"weather_condition"}))))
    /\ idx = 0
    /\ fetched = <<>>
    /\ race_data = None
    /\ combined_df = None
    /\ all_race_data = <<>>
    /\ final_dataset = None
    /\ csv_file = None
    /\ log = <<>>
    /\ ergast = "off"
    /\ dash = "off"
    /\ weather_stats = None
    /\ viz = "off"

\* one more row in the dataset; analyze_qualifying_performance(df) in the
\* pipeline and calculate_metrics(df) in the dashboard over the same rows
AddRowAndCompare ==
    /\ script = "metrics"
    /\ Len(df) < MaxRows
    /\ \E row \in DatasetRows :
         /\ df' = Append(df, row)
         /\ stats' = analyze_qualifying_performance(df')
         /\ comparison' =
               Some(calculate_metrics(Some(CsvFile(df', {"weather_condition"}))))
    /\ UNCHANGED <<script, pc, idx, fetched, race_data, combined_df,
                   all_race_data, final_dataset, csv_file, log, ergast, dash,
                   weather_stats, viz>>

NextMetrics == AddRowAndCompare

SpecMetrics == InitMetrics /\ [][NextMetrics]_vars

HasComparableRow ==
    \E i \in 1..Len(df) : df[i].quali_position # NaN /\ df[i].race_position # NaN

\* C25: over a dataset with at least one row that has both positions, the
\* dashboard's qualifying_correlation, r_squared and avg_position_change
\* equal the pipeline's correlation, r_squared and mean_position_change.
C25_SameStatistics ==
    (script = "metrics" /\ HasComparableRow) =>
       /\ stats[1] # None
       /\ Get(comparison).qualifying_correlation = Get(stats[1]).correlation
       /\ Get(comparison).r_squared = Get(stats[1]).r_squared
       /\ Get(comparison).avg_position_change = Get(stats[1]).mean_position_change

C25_Witness ==
    /\ script = "metrics" /\ Len(df) = 4
    /\ \E i \in 1..Len(df) : df[i].quali_position = NaN /\ df[i].race_position # NaN
    /\ stats[1] # None
    /\ Get(stats[1]).sample_size = 3
    /\ Get(stats[1]).correlation # NaN
    /\ Get(stats[1]).mean_position_change # Some(Frac(0, 3))
    /\ Get(comparison).total_records = 4

----------------------------------------------------------------------------
\* the team names the two result tables of an event give for a driver
TeamNamesOf(rd, d) ==
    UNION {rd.quali_results[i].TeamName :
              i \in {j \in 1..Len(rd.quali_results) :
                        rd.quali_results[j].Abbreviation = d}}
    \cup
    UNION {rd.race_results[i].TeamName :
              i \in {j \in 1..Len(rd.race_results) :
                        rd.race_results[j].Abbreviation = d}}

\* C26: every reconciled row of a driver for whom at least one of the two
\* tables has a team name carries a team; a driver who is in the race table
\* only gets the team of the race row.
C26_TeamFromEitherTable ==
    (Reconciled /\ combined_df # None) =>
       \A i \in 1..Len(Get(combined_df)) :
          LET row == Get(combined_df)[i]
          IN TeamNamesOf(Get(race_data), row.driver) # {} =>
                row.team \subseteq TeamNamesOf(Get(race_data), row.driver)
                /\ row.team # NaN

----------------------------------------------------------------------------
FilesOnDisk == dash.disk.main # None /\ dash.disk.day2 # None

\* C27: a failed load does not stick: a run of the script over files that
\* are on disk shows the data, or at least offers the Refresh Data button
\* from which the files are read again.
C27_FailedLoadRecovers ==
    (script = "dashboard" /\ dash.last = "RunDashboard" /\ FilesOnDisk) =>
       \/ dash.page.main_data # None
       \/ dash.page.button

----------------------------------------------------------------------------
ComparableRow(row) == row.quali_position # NaN /\ row.race_position # NaN

\* C28: over a dataset without a row that has both positions, the empty
\* dataset included, analyze_qualifying_performance returns (None, None);
\* over any other dataset it returns statistics with sample_size >= 1 and,
\* as the second value, exactly the rows that have both positions.
C28_NoComparableRowNoStatistics ==
    script = "analyze" =>
       IF \A i \in 1..Len(df) : ~ComparableRow(df[i])
       THEN stats = <<None, None>>
       ELSE /\ stats[1] # None
            /\ stats[2] = Some(SelectSeq(df, ComparableRow))
            /\ Get(stats[1]).sample_size >= 1
            /\ Get(stats[1]).sample_size = Len(SelectSeq(df, ComparableRow))

C28_Witness ==
    /\ script = "analyze"
    /\ Len(df) = 2
    /\ df[1].quali_position = NaN /\ df[1].race_position # NaN
    /\ df[2].race_position = NaN /\ df[2].quali_position # NaN
    /\ stats = <<None, None>>

====
